---- MODULE Spec2Model ----
(***************************************************************************)
(* Model of the SampleAgent weather agent: intent detection, location     *)
(* resolution and process_query (agent.py), the LLM client's generate      *)
(* wrapper (llm.py) and its cost tracker (cost_tracker.py), the tool       *)
(* registry (tool_registry.py), the activity suggester                     *)
(* (tools/activity_suggester.py), the search client                        *)
(* (tools/brave_search.py) and the weather providers                       *)
(* (tools/weather_providers.py).                                           *)
(*                                                                         *)
(* Text is modelled as TLA+ strings handled character by character, so the *)
(* regular expressions of the source are evaluated on the characters of    *)
(* the query: \b, \s+, [A-Z][a-z]+ under re.I, str.lower, str.capitalize.  *)
(***************************************************************************)
EXTENDS Integers, Sequences, FiniteSets, TLC

VARIABLES
    di_query,       \* the query given to _detect_intent
    di_intent,      \* its result, NotRun before the call
    ec_pc,          \* position of _extract_city: idle, awaiting (the LLM), done
    ec_query,       \* the query given to _extract_city
    ec_candidate,   \* candidate_city, None when no pattern matched
    ec_llm_calls,   \* the LLM calls issued by the running _extract_city
    ec_response,    \* what self.llm.generate returned
    ec_outcome,     \* what _extract_city did: returned a value or raised
    ec_logged,      \* self.llm.cost_tracker.last_call_info is not None
    tr_tools,       \* ToolRegistry.tools
    tr_log,         \* the tools given to register_tool so far, in call order
    tx,             \* the Tool.execute call made: its inputs, the callable's calls, its outcome
    as_pc,          \* position of get_activity_suggestion: idle, terms, search, suggest, done
    as_args,        \* its arguments: city, weather, is_forecast
    as_calls,       \* the LLM and search calls it has issued, in order
    as_results,     \* what the searches answered so far, in order
    as_terms,       \* search_terms
    as_responses,   \* what self.llm.generate returned to it, in order
    as_logged,      \* its LLM client's cost_tracker.last_call_info is not None
    as_outcome,     \* what it returned
    pq_pc,          \* position of process_query: idle, resolving, tooling, suggesting, done
    pq_query,       \* the query being processed
    pq_intent,      \* intent
    pq_resolved,    \* what _extract_city did: returned a city or None, or raised
    pq_city,        \* city
    pq_plan,        \* time_phrase, the clock read and forecast_days of a forecast
    pq_calls,       \* the collaborator calls of the running process_query, in order
    pq_result,      \* what the tool's execute did: the value returned or the exception
    pq_response,    \* response
    pq_outcome,     \* what process_query did: returned the response or raised
    api_calls,      \* self.api_calls
    db,             \* the rows of the interactions table, in insertion order
    pq_count,       \* the process_query calls made so far
    ct,             \* a CostTracker: calls, totals, operation_stats, last_call_info
    gen_log,        \* the generate calls made on the LLMClient that owns ct, in order
    bs,             \* the BraveSearch.search call made: query, HTTP requests, sleeps, outcome
    wp,             \* the get_current_weather call made on a provider, likewise
    wc              \* the query construction of BraveSearch.get_activity_suggestion

di_vars == <<di_query, di_intent>>
ec_vars == <<ec_pc, ec_query, ec_candidate, ec_llm_calls, ec_response, ec_outcome,
             ec_logged>>
tr_vars == <<tr_tools, tr_log, tx>>
as_vars == <<as_pc, as_args, as_calls, as_results, as_terms, as_responses, as_logged,
             as_outcome>>
pq_vars == <<pq_pc, pq_query, pq_intent, pq_resolved, pq_city, pq_plan, pq_calls, pq_result, pq_response,
             pq_outcome,
             api_calls, db, pq_count>>
cl_vars == <<ct, gen_log, bs, wp, wc>>
vars == <<di_vars, ec_vars, tr_vars, as_vars, pq_vars, cl_vars>>

(***************************************************************************)
(* Bounds of the model.                                                    *)
(***************************************************************************)
\* Longest query, in words of Vocabulary, drawn for intent detection.
MaxWords == 2
\* Most register_tool calls made on one registry.
MaxRegistrations == 3
\* Most process_query calls made on one agent.
MaxQueries == 1
\* Most calls logged by one cost tracker, and most generate calls made on
\* one client.
MaxCalls == 3

(***************************************************************************)
(* Characters.                                                             *)
(***************************************************************************)
NoMatch == "<no match>"
None == "<None>"

LowerChars == "abcdefghijklmnopqrstuvwxyz"
UpperChars == "ABCDEFGHIJKLMNOPQRSTUVWXYZ"
DigitChars == "0123456789"

CharAt(s, i) == IF i >= 1 /\ i <= Len(s) THEN SubSeq(s, i, i) ELSE ""

InChars(c, set) == \E k \in 1..Len(set) : SubSeq(set, k, k) = c

IsLetter(c) == InChars(c, LowerChars) \/ InChars(c, UpperChars)

\* \w of Python's re on the characters used here.
IsWordChar(c) == IsLetter(c) \/ InChars(c, DigitChars) \/ c = "_"

\* \s of Python's re on the characters used here.
IsSpace(c) == c = " "

\* str.lower and str.upper on one character.
LowerChar(c) ==
    IF InChars(c, UpperChars)
    THEN LET k == CHOOSE k \in 1..26 : SubSeq(UpperChars, k, k) = c
         IN SubSeq(LowerChars, k, k)
    ELSE c

UpperChar(c) ==
    IF InChars(c, LowerChars)
    THEN LET k == CHOOSE k \in 1..26 : SubSeq(LowerChars, k, k) = c
         IN SubSeq(UpperChars, k, k)
    ELSE c

\* str.lower: lowered[i] is the lower-cased text from position i on.
StrLower(s) ==
    LET lowered[i \in 1..(Len(s) + 1)] ==
            IF i > Len(s) THEN "" ELSE LowerChar(SubSeq(s, i, i)) \o lowered[i + 1]
    IN lowered[1]

\* \b at the gap before position i (1..Len(s)+1).
WordBoundary(s, i) == IsWordChar(CharAt(s, i - 1)) # IsWordChar(CharAt(s, i))

\* The literal lit occurs in s starting at position i.
LiteralAt(s, i, lit) ==
    /\ i + Len(lit) - 1 <= Len(s)
    /\ SubSeq(s, i, i + Len(lit) - 1) = lit

(***************************************************************************)
(* re.search(r'\b(a1|a2|...)\b', s): the leftmost position wins, and at    *)
(* one position the first alternative, in the order written, that is       *)
(* followed by \b.  The value is group(0), or NoMatch.                     *)
(***************************************************************************)
AltMatchesAt(s, i, alt) ==
    /\ LiteralAt(s, i, alt)
    /\ WordBoundary(s, i)
    /\ WordBoundary(s, i + Len(alt))

KeywordSearch(alts, s) ==
    LET hits == {i \in 1..Len(s) : \E a \in 1..Len(alts) : AltMatchesAt(s, i, alts[a])}
    IN IF hits = {} THEN NoMatch
       ELSE LET i == CHOOSE i \in hits : \A j \in hits : i <= j
                a == CHOOSE a \in 1..Len(alts) :
                        /\ AltMatchesAt(s, i, alts[a])
                        /\ \A b \in 1..(a - 1) : ~AltMatchesAt(s, i, alts[b])
            IN alts[a]

(***************************************************************************)
(* WeatherAgent._detect_intent                                             *)
(***************************************************************************)
CurrentKeywords == <<"current", "now", "today">>
HistoryKeywords == <<"history", "last week", "past">>
ForecastKeywords ==
    <<"forecast", "tomorrow", "next", "upcoming", "this weekend", "next week", "future">>

\* Mutant: the history and forecast rules in the opposite order.
DetectIntentForecastFirst(q) ==
    LET query == StrLower(q)
    IN IF KeywordSearch(CurrentKeywords, query) # NoMatch THEN "current"
       ELSE IF KeywordSearch(ForecastKeywords, query) # NoMatch THEN "forecast"
       ELSE IF KeywordSearch(HistoryKeywords, query) # NoMatch THEN "history"
       ELSE "current"

\* Mutant: the query is matched without query.lower().
DetectIntentNoLower(q) ==
    IF KeywordSearch(CurrentKeywords, q) # NoMatch THEN "current"
    ELSE IF KeywordSearch(HistoryKeywords, q) # NoMatch THEN "history"
    ELSE IF KeywordSearch(ForecastKeywords, q) # NoMatch THEN "forecast"
    ELSE "current"

DetectIntent(q) ==
    LET query == StrLower(q)
    IN IF KeywordSearch(CurrentKeywords, query) # NoMatch THEN "current"
       ELSE IF KeywordSearch(HistoryKeywords, query) # NoMatch THEN "history"
       ELSE IF KeywordSearch(ForecastKeywords, query) # NoMatch THEN "forecast"
       ELSE "current"

(***************************************************************************)
(* Queries: one to MaxWords fragments joined by single spaces.             *)
(***************************************************************************)
RECURSIVE JoinWords(_)
JoinWords(ws) ==
    IF Len(ws) = 0 THEN ""
    ELSE IF Len(ws) = 1 THEN ws[1]
    ELSE ws[1] \o " " \o JoinWords(Tail(ws))

Queries ==
    LET Vocabulary ==
            { "current", "now", "today", "history", "last", "week", "past",
              "forecast", "tomorrow", "next", "upcoming", "this", "weekend", "future",
              "TODAY?", "Tomorrow", "nowadays", "forecasts", "Paris", "weather" }
    IN UNION { { JoinWords(ws) : ws \in [1..n -> Vocabulary] } : n \in 1..MaxWords }

(***************************************************************************)
(* Intent detection as a machine: a query is given, _detect_intent runs.    *)
(***************************************************************************)
NotRun == "<not run>"

DI_Init ==
    /\ di_query \in Queries
    /\ di_intent = NotRun

\* Intent detection at rest, for the specifications of the other components.
DI_Init0 ==
    /\ di_query = ""
    /\ di_intent = NotRun

DetectIntentCall ==
    /\ di_intent = NotRun
    /\ di_intent' = DetectIntent(di_query)
    /\ UNCHANGED di_query
    /\ UNCHANGED <<ec_vars, tr_vars, as_vars, pq_vars, cl_vars>>

(***************************************************************************)
(* WeatherAgent._extract_city, phase 1: the three patterns, searched with  *)
(* re.I, so [A-Z] and [a-z] both match a letter of either case.            *)
(***************************************************************************)
\* Last position of the run of letters ([A-Za-z]*) starting at i; i-1 if empty.
RECURSIVE LetterRunEnd(_, _)
LetterRunEnd(s, i) ==
    IF IsLetter(CharAt(s, i)) THEN LetterRunEnd(s, i + 1) ELSE i - 1

\* Last position of the run of whitespace (\s*) starting at i; i-1 if empty.
RECURSIVE SpaceRunEnd(_, _)
SpaceRunEnd(s, i) ==
    IF IsSpace(CharAt(s, i)) THEN SpaceRunEnd(s, i + 1) ELSE i - 1

\* [A-Z][a-z]+ at i, greedy: the end of the word, or 0 when fewer than two
\* letters stand there.
WordEnd(s, i) ==
    LET e == LetterRunEnd(s, i) IN IF e >= i + 1 THEN e ELSE 0

\* One more (?:\s+[A-Z][a-z]+) after position e: its end, or 0.
ChainStep(s, e) ==
    LET sp == SpaceRunEnd(s, e + 1)
    IN IF sp >= e + 1 THEN WordEnd(s, sp + 1) ELSE 0

\* (?:\s+[A-Z][a-z]+)* greedy, from a word ending at e.
RECURSIVE GreedyChainEnd(_, _)
GreedyChainEnd(s, e) ==
    IF ChainStep(s, e) = 0 THEN e ELSE GreedyChainEnd(s, ChainStep(s, e))

Prepositions == <<"in", "at", "for", "near", "around">>

\* A literal of the list stands at i, compared without case.
AnyLiteralAt(s, i, lits) ==
    \E a \in 1..Len(lits) :
        /\ i + Len(lits[a]) - 1 <= Len(s)
        /\ StrLower(SubSeq(s, i, i + Len(lits[a]) - 1)) = lits[a]

\* Pattern 1 anchored at i: \b(?:in|at|for|near|around)\s+(group).
\* The value is <<start, end>> of group 1, or <<0, 0>>.
Pattern1At(s, i) ==
    IF ~WordBoundary(s, i) \/ ~AnyLiteralAt(s, i, Prepositions) THEN <<0, 0>>
    ELSE LET a == CHOOSE a \in 1..Len(Prepositions) :
                     /\ i + Len(Prepositions[a]) - 1 <= Len(s)
                     /\ StrLower(SubSeq(s, i, i + Len(Prepositions[a]) - 1))
                            = Prepositions[a]
             j == i + Len(Prepositions[a])
             sp == SpaceRunEnd(s, j)
         IN IF sp >= j /\ WordEnd(s, sp + 1) # 0
            THEN <<sp + 1, GreedyChainEnd(s, WordEnd(s, sp + 1))>>
            ELSE <<0, 0>>

\* (?:\s+(?:weather|temperature|forecast)) right after position e.
WeatherWordFollows(s, e) ==
    LET sp == SpaceRunEnd(s, e + 1)
    IN sp >= e + 1 /\ AnyLiteralAt(s, sp + 1, <<"weather", "temperature", "forecast">>)

\* (?:\s+[A-Z][a-z]+)*? lazy, from a word ending at e, up to the first word
\* that a weather word follows; 0 when the chain ends before one.
RECURSIVE LazyChainEnd(_, _)
LazyChainEnd(s, e) ==
    IF WeatherWordFollows(s, e) THEN e
    ELSE IF ChainStep(s, e) = 0 THEN 0
    ELSE LazyChainEnd(s, ChainStep(s, e))

\* Pattern 2 anchored at i: \b(group)(?:\s+(?:weather|temperature|forecast)).
Pattern2At(s, i) ==
    IF ~WordBoundary(s, i) \/ WordEnd(s, i) = 0 THEN <<0, 0>>
    ELSE LET e == LazyChainEnd(s, WordEnd(s, i))
         IN IF e = 0 THEN <<0, 0>> ELSE <<i, e>>

\* Pattern 3 anchored at i: \b(group),\s*[A-Z]{2}\b.
Pattern3At(s, i) ==
    IF ~WordBoundary(s, i) \/ WordEnd(s, i) = 0 THEN <<0, 0>>
    ELSE LET e == GreedyChainEnd(s, WordEnd(s, i))
             sp == SpaceRunEnd(s, e + 2)
         IN IF /\ CharAt(s, e + 1) = ","
               /\ IsLetter(CharAt(s, sp + 1))
               /\ IsLetter(CharAt(s, sp + 2))
               /\ WordBoundary(s, sp + 3)
            THEN <<i, e>>
            ELSE <<0, 0>>

PatternAt(p, s, i) ==
    CASE p = 1 -> Pattern1At(s, i)
      [] p = 2 -> Pattern2At(s, i)
      [] p = 3 -> Pattern3At(s, i)

\* re.search(pattern, query, re.I).group(1): the leftmost anchor wins.
PatternSearch(p, s) ==
    LET hits == {i \in 1..Len(s) : PatternAt(p, s, i) # <<0, 0>>}
    IN IF hits = {} THEN NoMatch
       ELSE LET i == CHOOSE i \in hits : \A j \in hits : i <= j
                g == PatternAt(p, s, i)
            IN SubSeq(s, g[1], g[2])

\* ' '.join(word.capitalize() for word in group.split()); atStart says that
\* position i begins a word.
RECURSIVE TitleFrom(_, _, _)
TitleFrom(g, i, atStart) ==
    IF i > Len(g) THEN ""
    ELSE LET c == CharAt(g, i)
         IN IF IsSpace(c)
            THEN (IF IsSpace(CharAt(g, i + 1)) \/ i = Len(g) THEN "" ELSE " ")
                    \o TitleFrom(g, i + 1, TRUE)
            ELSE (IF atStart THEN UpperChar(c) ELSE LowerChar(c))
                    \o TitleFrom(g, i + 1, FALSE)

TitleWords(g) == TitleFrom(g, 1, TRUE)

\* The loop over the patterns: the first pattern that matches gives the
\* candidate, else None.
CandidateCity(q) ==
    IF PatternSearch(1, q) # NoMatch THEN TitleWords(PatternSearch(1, q))
    ELSE IF PatternSearch(2, q) # NoMatch THEN TitleWords(PatternSearch(2, q))
    ELSE IF PatternSearch(3, q) # NoMatch THEN TitleWords(PatternSearch(3, q))
    ELSE None

(***************************************************************************)
(* The LLM round trip of _extract_city.                                    *)
(*                                                                         *)
(* A handler outcome is what _generate_together / _generate_openrouter do: *)
(* raise requests' Timeout, raise anything else (connection error, a body  *)
(* that is not JSON), or return the decoded JSON body.  Bodies are         *)
(* described by their shape; a completion carries the text of              *)
(* choices[0].message.content, itself described by what json.loads makes   *)
(* of it.                                                                  *)
(***************************************************************************)
Absent == "<absent>"

\* confidence, in hundredths.
ConfidenceThreshold == 70

\* The JSON objects a completion may hold.  alternates: absent, a list of
\* country names (possibly empty), or a non-empty list whose items are not
\* strings.
VerificationObjects ==
    [ is_valid : {Absent, "true", "false"},
      confidence :
        { [k |-> "absent", v |-> 0], [k |-> "null", v |-> 0], [k |-> "text", v |-> 0],
          [k |-> "num", v |-> 50], [k |-> "num", v |-> 70], [k |-> "num", v |-> 90] },
      city : {Absent, "Cambridge", "Paris"},
      country : {Absent, "United Kingdom"},
      alternates :
        { [k |-> "absent", items |-> <<>>], [k |-> "list", items |-> <<>>],
          [k |-> "list", items |-> <<"United States">>],
          [k |-> "numbers", items |-> <<>>] } ]

NoObject ==
    [ is_valid |-> Absent, confidence |-> [k |-> "absent", v |-> 0], city |-> Absent,
      country |-> Absent, alternates |-> [k |-> "absent", items |-> <<>>] ]

\* A content is what json.loads(content.strip()) yields: "invalid" raises
\* JSONDecodeError, the other kinds are the type of the decoded value.
NoContent == [kind |-> "invalid", obj |-> NoObject]

\* Shapes of a decoded body:
\*   null, empty_object          falsy values
\*   number                      a non-zero number
\*   text, array                 a string or list not holding 'choices'
\*   error_object                an object without 'choices'
\*   bad_choices                 'choices' present, choices[0].message.content not a string
\*   completion                  choices[0].message.content is a string
HandlerOutcomes ==
    { [k |-> "timeout", body |-> "null", content |-> NoContent],
      [k |-> "exception", body |-> "null", content |-> NoContent] }
        \cup { [k |-> "json", body |-> b, content |-> NoContent] :
                    b \in {"null", "empty_object", "number", "text", "array",
                           "error_object", "bad_choices"} }
        \cup { [k |-> "json", body |-> "completion", content |-> [kind |-> c, obj |-> NoObject]] :
                    c \in {"invalid", "array", "string", "number", "null"} }
        \cup { [k |-> "json", body |-> "completion", content |-> [kind |-> "object", obj |-> o]] :
                    o \in VerificationObjects }

ErrorValue(tag) == [k |-> "error", tag |-> tag, body |-> "error_object", content |-> NoContent]

\* response and 'choices' in response
HasChoices(r) == r.k = "json" /\ r.body \in {"bad_choices", "completion"}

\* LLMClient.generate: the value returned to the caller.  A number makes
\* "'choices' in response" raise, and bad choices make the content lookup or
\* the token count raise, inside the try: both come back as request_failed.
\* (The has_reasoning rewrite of an empty content is not modelled: the
\* default model does not set the flag.)
Generate(h) ==
    IF h.k = "timeout" THEN ErrorValue("timeout")
    ELSE IF h.k = "exception" THEN ErrorValue("request_failed")
    ELSE IF h.body \in {"number", "bad_choices"} THEN ErrorValue("request_failed")
    ELSE [k |-> "json", tag |-> "", body |-> h.body, content |-> h.content]

\* LLMClient.generate logs the call in its cost tracker when the response
\* holds 'choices' (llm.py lines 125-142), and log_call stores
\* last_call_info (cost_tracker.py line 63), None until then (line 15).
Logged(logged, response) == logged \/ HasChoices(response)

\* Mutant: the prompt always carries the full query.
VerifySubjectQueryOnly(candidate, q) == q

\* The value of the expression (candidate_city or query) in verify_prompt.
VerifySubject(candidate, q) == IF candidate # None /\ candidate # "" THEN candidate ELSE q

\* Outcomes of a call.
Return(v) == [k |-> "return", v |-> v]
Raise(e) == [k |-> "raise", v |-> e]

Truthy(o) == o.is_valid = "true"

AlternatesTruthy(o) ==
    \/ o.alternates.k = "list" /\ Len(o.alternates.items) > 0
    \/ o.alternates.k = "numbers"

\* The accepting branches: result['city'], then the prints that read
\* result['country'] and join result['alternates'].
HighConfidenceBranch(o) ==
    IF o.city = Absent THEN Raise("KeyError")
    ELSE IF o.country = Absent THEN Raise("KeyError")
    ELSE IF o.alternates.k = "numbers" THEN Raise("TypeError")
    ELSE Return(o.city)

AmbiguousBranch(o) ==
    IF o.city = Absent THEN Raise("KeyError")
    ELSE IF o.country = Absent THEN Raise("KeyError")
    ELSE IF o.alternates.k = "numbers" THEN Raise("TypeError")
    ELSE Return(o.city)

\* The part of _extract_city after the LLM call.
DecideCity(response) ==
    IF ~HasChoices(response) THEN Return(None)
    ELSE LET c == response.content
             o == c.obj
         IN IF c.kind = "invalid" THEN Return(None)
            ELSE IF c.kind # "object" THEN Raise("AttributeError")
            ELSE IF Truthy(o) /\ o.confidence.k \in {"null", "text"}
                 THEN Raise("TypeError")
            ELSE IF Truthy(o) /\ o.confidence.k = "num"
                        /\ o.confidence.v > ConfidenceThreshold
                 THEN HighConfidenceBranch(o)
            ELSE IF Truthy(o) /\ AlternatesTruthy(o) THEN AmbiguousBranch(o)
            ELSE Return(None)

\* Lines 472-517: what _extract_city does once generate has returned, on an
\* agent whose tracker had logged a call before (logged) or not.  The usage
\* display of lines 473-478 reads last_call_info with .get, which None does
\* not have.
ExtractCityOutcome(logged, response) ==
    IF ~Logged(logged, response) THEN Raise("AttributeError")
    ELSE DecideCity(response)

(***************************************************************************)
(* Location resolution as a machine: _extract_city is entered with a       *)
(* query, issues its LLM call and blocks; the call returns and the         *)
(* resolver decides.                                                       *)
(***************************************************************************)
NoOutcome == [k |-> "none", v |-> None]
NoResponse == [k |-> "none", tag |-> "", body |-> "null", content |-> NoContent]

EC_Init ==
    /\ ec_pc = "idle"
    /\ ec_query = ""
    /\ ec_candidate = None
    /\ ec_llm_calls = <<>>
    /\ ec_response = NoResponse
    /\ ec_outcome = NoOutcome
    /\ ec_logged = FALSE

\* _extract_city up to and including the call of self.llm.generate.
ExtractCityCall(q) ==
    /\ ec_pc = "idle"
    /\ ec_pc' = "awaiting"
    /\ ec_query' = q
    /\ ec_candidate' = CandidateCity(q)
    /\ ec_llm_calls' = Append(ec_llm_calls,
            [operation |-> "verify_city", subject |-> VerifySubject(CandidateCity(q), q)])
    /\ UNCHANGED <<ec_response, ec_outcome, ec_logged>>
    /\ UNCHANGED <<di_vars, tr_vars, as_vars, pq_vars, cl_vars>>

\* generate returns; the rest of _extract_city runs.  The usage display of
\* lines 473-478 reads last_call_info with .get, which None does not have.
ExtractCityReturn(h) ==
    /\ ec_pc = "awaiting"
    /\ ec_pc' = "done"
    /\ ec_response' = Generate(h)
    /\ ec_logged' = Logged(ec_logged, Generate(h))
    /\ ec_outcome' = ExtractCityOutcome(ec_logged, Generate(h))
    /\ UNCHANGED <<ec_query, ec_candidate, ec_llm_calls>>
    /\ UNCHANGED <<di_vars, tr_vars, as_vars, pq_vars, cl_vars>>

\* The caller takes the outcome; the next call starts afresh.
ExtractCityDone ==
    /\ ec_pc = "done"
    /\ ec_pc' = "idle"
    /\ ec_query' = ""
    /\ ec_candidate' = None
    /\ ec_llm_calls' = <<>>
    /\ ec_response' = NoResponse
    /\ ec_outcome' = NoOutcome
    /\ UNCHANGED ec_logged
    /\ UNCHANGED <<di_vars, tr_vars, as_vars, pq_vars, cl_vars>>

(***************************************************************************)
(* tool_registry.py: Tool and ToolRegistry.                                *)
(***************************************************************************)
ToolNames == {"get_current_weather", "get_weather_forecast"}

\* A descriptor: the function field is "bound" or None.  description,
\* category and parameters are carried by the code and never read by
\* execute, register_tool or get_tool; they are left out.
ToolPool ==
    [ name : ToolNames,
      required_params : {<<>>, <<"city">>, <<"city", "days">>, <<"days", "city">>},
      function : {"bound", None} ]

\* What get_tool gives for a name that is not registered (Python's None).
NoTool == [name |-> None, required_params |-> <<>>, function |-> None]

\* Tool.validate_params
ValidateParams(tool, params) ==
    \A i \in 1..Len(tool.required_params) : tool.required_params[i] \in DOMAIN params

\* Mutant: every required parameter is reported, absent or not.
MissingParamsAll(tool, params) == tool.required_params

\* [p for p in self.required_params if p not in params]
MissingParams(tool, params) ==
    LET Absent_(p) == p \notin DOMAIN params
    IN SelectSeq(tool.required_params, Absent_)

MissingError(missing) ==
    [k |-> "raise", v |-> "ValueError: Missing required parameters", missing |-> missing]

UnboundError ==
    [k |-> "raise", v |-> "ValueError: Tool has no implementation", missing |-> <<>>]

\* Mutant: the implementation is looked at before the parameters.
ToolExecuteUnboundFirst(tool, params, callable) ==
    IF tool.function = None
    THEN [calls |-> <<>>, outcome |-> UnboundError]
    ELSE IF ~ValidateParams(tool, params)
    THEN [calls |-> <<>>, outcome |-> MissingError(MissingParams(tool, params))]
    ELSE [calls |-> <<params>>, outcome |-> callable]

\* Tool.execute: the calls made to self.function and what execute does.
ToolExecute(tool, params, callable) ==
    IF ~ValidateParams(tool, params)
    THEN [calls |-> <<>>, outcome |-> MissingError(MissingParams(tool, params))]
    ELSE IF tool.function = None
    THEN [calls |-> <<>>, outcome |-> UnboundError]
    ELSE [calls |-> <<params>>, outcome |-> callable]

\* self.tools, a dict, kept as its items in insertion order.
HasKey(tools, name) == \E i \in 1..Len(tools) : tools[i].name = name

KeyIndex(tools, name) == CHOOSE i \in 1..Len(tools) : tools[i].name = name

\* Mutant: every registration adds an item.
DictSetAppend(tools, tool) == Append(tools, tool)

\* self.tools[tool.name] = tool
DictSet(tools, tool) ==
    IF HasKey(tools, tool.name)
    THEN [tools EXCEPT ![KeyIndex(tools, tool.name)] = tool]
    ELSE Append(tools, tool)

\* ToolRegistry.get_tool: self.tools.get(name)
GetTool(tools, name) ==
    IF HasKey(tools, name) THEN tools[KeyIndex(tools, name)] ELSE NoTool

\* ToolRegistry.list_tools: one metadata entry per value of the dict.
ListTools(tools) ==
    [ i \in 1..Len(tools) |->
        [name |-> tools[i].name, required_params |-> tools[i].required_params] ]

NoExec ==
    [ ran |-> FALSE, tool |-> NoTool, params |-> <<>>,
      callable |-> [k |-> "return", v |-> None, missing |-> <<>>],
      calls |-> <<>>, outcome |-> [k |-> "none", v |-> None, missing |-> <<>>] ]

TR_Init ==
    /\ tr_tools = <<>>
    /\ tr_log = <<>>
    /\ tx = NoExec

\* ToolRegistry.register_tool; tr_log keeps the registrations in call order.
RegisterTool(tool) ==
    /\ Len(tr_log) < MaxRegistrations
    /\ tr_tools' = DictSet(tr_tools, tool)
    /\ tr_log' = Append(tr_log, tool)
    /\ UNCHANGED <<tx, di_vars, ec_vars, as_vars, pq_vars, cl_vars>>

\* tool.execute(**params) on a descriptor, with a callable that would do
\* `callable` if called.
ToolExecuteCall(tool, params, callable) ==
    /\ ~tx.ran
    /\ tx' = [ ran |-> TRUE, tool |-> tool, params |-> params, callable |-> callable,
               calls |-> ToolExecute(tool, params, callable).calls,
               outcome |-> ToolExecute(tool, params, callable).outcome ]
    /\ UNCHANGED <<tr_tools, tr_log, di_vars, ec_vars, as_vars, pq_vars, cl_vars>>

(***************************************************************************)
(* tools/activity_suggester.py: ActivitySuggester.get_activity_suggestion. *)
(* Text helpers first: str.strip, str.replace, str.split on the characters *)
(* of a completion.                                                        *)
(***************************************************************************)
\* The characters str.strip() removes, of the characters used here.
IsWhitespace(c) == c = " " \/ c = "\n" \/ c = "\t"

RECURSIVE LStrip(_)
LStrip(s) ==
    IF Len(s) > 0 /\ IsWhitespace(SubSeq(s, 1, 1)) THEN LStrip(SubSeq(s, 2, Len(s))) ELSE s

RECURSIVE RStrip(_)
RStrip(s) ==
    IF Len(s) > 0 /\ IsWhitespace(SubSeq(s, Len(s), Len(s)))
    THEN RStrip(SubSeq(s, 1, Len(s) - 1))
    ELSE s

\* str.strip()
Strip(s) == RStrip(LStrip(s))

\* str.replace(c, r) for a one-character c.
RECURSIVE ReplaceChar(_, _, _)
ReplaceChar(s, c, r) ==
    IF Len(s) = 0 THEN ""
    ELSE (IF SubSeq(s, 1, 1) = c THEN r ELSE SubSeq(s, 1, 1))
            \o ReplaceChar(SubSeq(s, 2, Len(s)), c, r)

\* c in s, for a one-character c.
HasChar(s, c) == \E i \in 1..Len(s) : SubSeq(s, i, i) = c

\* Mutant: the completion is used as it came, quotes and newlines included.
CleanTermsRaw(content) == content

\* Lines 62-69: the search terms made of a completion's content.
CleanTerms(content) ==
    LET raw_terms == Strip(content)
        search_terms == Strip(ReplaceChar(ReplaceChar(raw_terms, "\"", ""), "\n", " "))
        \* s.split('\n')[0]
        FirstLine(s) ==
            LET i == CHOOSE i \in 1..Len(s) :
                        /\ SubSeq(s, i, i) = "\n"
                        /\ \A j \in 1..(i - 1) : SubSeq(s, j, j) # "\n"
            IN SubSeq(s, 1, i - 1)
    IN IF HasChar(search_terms, "\n") THEN Strip(FirstLine(search_terms))
       ELSE search_terms

\* Lines 60-69: "" unless the response holds 'choices'.
SearchTerms(response) ==
    IF HasChoices(response) THEN CleanTerms(response.content) ELSE ""

\* What the handler may do on a suggester call: as HandlerOutcomes, with the
\* completion's content given as its text.
TextOutcomes ==
    { [k |-> "timeout", body |-> "null", content |-> ""],
      [k |-> "exception", body |-> "null", content |-> ""],
      [k |-> "json", body |-> "null", content |-> ""],
      [k |-> "json", body |-> "error_object", content |-> ""],
      [k |-> "json", body |-> "bad_choices", content |-> ""] }
        \cup { [k |-> "json", body |-> "completion", content |-> c] :
                    c \in { "indoor museum gallery", " \"outdoor park\"\ngarden walking \n",
                            "", "\n\nRecommended Activity: Visit the Louvre.\n" } }

\* not search_result
IsEmptyResult(r) == r = None \/ r = ""

\* The search calls one run may make (lines 79, 85, 91).
SearchAttempts == 3

\* Mutant: the generic query is tried before the generated one.
SearchQueryGenericFirst(attempt, search_terms, city) ==
    IF attempt = 1 THEN "most famous landmarks monuments museums attractions " \o city
    ELSE IF attempt = 2 THEN search_terms \o " attractions " \o city
    ELSE "tourist attractions " \o city

\* Lines 74, 83, 89: the query of the attempt-th search.
SearchQuery(attempt, search_terms, city) ==
    IF attempt = 1 THEN search_terms \o " attractions " \o city
    ELSE IF attempt = 2 THEN "most famous landmarks monuments museums attractions " \o city
    ELSE "tourist attractions " \o city

\* The values interpolated into a prompt; the fixed text around them is
\* left out.  temp is the text the f-string makes of weather['temp'].
\* Lines 28-44
WeatherPrompt(city, weather) ==
    [ city |-> city, temp |-> weather.temp, conditions |-> weather.conditions,
      context |-> "", results |-> "" ]

\* Mutant: the prompt leaves the weather out.
SuggestPromptNoWeather(city, weather, is_forecast, search_result) ==
    [ city |-> city, temp |-> "", conditions |-> "",
      context |-> IF is_forecast THEN "for the forecasted weather" ELSE "for today's weather",
      results |-> search_result ]

\* Lines 101-124
SuggestPrompt(city, weather, is_forecast, search_result) ==
    [ city |-> city, temp |-> weather.temp, conditions |-> weather.conditions,
      context |-> IF is_forecast THEN "for the forecasted weather" ELSE "for today's weather",
      results |-> search_result ]

LLMCall(operation, prompt) ==
    [kind |-> "llm", operation |-> operation, query |-> "", prompt |-> prompt]

SearchCall(query) ==
    [kind |-> "search", operation |-> "", query |-> query,
     prompt |-> [city |-> "", temp |-> "", conditions |-> "", context |-> "", results |-> ""]]

\* Mutant: the chain gives up after its second search.
AfterSearchTwoAttempts(attempt, r) ==
    IF ~IsEmptyResult(r) THEN "suggest"
    ELSE IF attempt < 2 THEN "search"
    ELSE "give_up"

\* Mutant: the chain tries a fourth search.
AfterSearchFourAttempts(attempt, r) ==
    IF ~IsEmptyResult(r) THEN "suggest"
    ELSE IF attempt < SearchAttempts + 1 THEN "search"
    ELSE "give_up"

\* Mutant: the recommendation is asked for whatever the searches gave.
AfterSearchAlwaysSuggest(attempt, r) ==
    IF ~IsEmptyResult(r) THEN "suggest"
    ELSE IF attempt < SearchAttempts THEN "search"
    ELSE "suggest"

\* Lines 81-94: what follows the attempt-th search returning r.
AfterSearch(attempt, r) ==
    IF ~IsEmptyResult(r) THEN "suggest"
    ELSE IF attempt < SearchAttempts THEN "search"
    ELSE "give_up"

\* Mutant: the suggestion is the content as it came.
SuggestionNoStrip(response) ==
    IF HasChoices(response) THEN Return(response.content) ELSE Return(None)

\* Lines 139-143
Suggestion(response) ==
    IF HasChoices(response) THEN Return(Strip(response.content)) ELSE Return(None)

NoArgs == [city |-> "", weather |-> [temp |-> "", conditions |-> ""], is_forecast |-> FALSE]

AS_Init ==
    /\ as_pc = "idle"
    /\ as_args = NoArgs
    /\ as_calls = <<>>
    /\ as_results = <<>>
    /\ as_terms = ""
    /\ as_responses = <<>>
    /\ as_logged = FALSE
    /\ as_outcome = NoOutcome

\* get_activity_suggestion is entered: lines 26-49, up to the call of
\* self.llm.generate for the search terms.
SuggestEnter(city, weather, is_forecast) ==
    /\ as_pc = "idle"
    /\ as_pc' = "terms"
    /\ as_args' = [city |-> city, weather |-> weather, is_forecast |-> is_forecast]
    /\ as_calls' = <<LLMCall("search_terms", WeatherPrompt(city, weather))>>
    /\ as_results' = <<>>
    /\ as_terms' = ""
    /\ as_responses' = <<>>
    /\ as_outcome' = NoOutcome
    /\ UNCHANGED as_logged

SuggestCall(city, weather, is_forecast) ==
    /\ SuggestEnter(city, weather, is_forecast)
    /\ UNCHANGED <<di_vars, ec_vars, tr_vars, pq_vars, cl_vars>>

\* The search-terms call returns: lines 52-79, up to the first search.
\* The usage display (lines 52-57, and 132-137 after the second call) reads
\* last_call_info with .get, which None does not have.
SuggestTermsReturn(h) ==
    /\ as_pc = "terms"
    /\ as_responses' = Append(as_responses, Generate(h))
    /\ as_logged' = Logged(as_logged, Generate(h))
    /\ IF ~Logged(as_logged, Generate(h))
       THEN /\ as_pc' = "done"
            /\ as_outcome' = Raise("AttributeError")
            /\ UNCHANGED <<as_terms, as_calls>>
       ELSE /\ as_pc' = "search"
            /\ as_terms' = SearchTerms(Generate(h))
            /\ as_calls' = Append(as_calls,
                    SearchCall(SearchQuery(1, SearchTerms(Generate(h)), as_args.city)))
            /\ UNCHANGED as_outcome
    /\ UNCHANGED <<as_args, as_results>>
    /\ UNCHANGED <<di_vars, ec_vars, tr_vars, pq_vars, cl_vars>>

\* A search returns r: lines 81-129.  The next fallback query is sent, or
\* the recommendation is asked of the LLM, or the run ends with None.
SuggestSearchReturn(r) ==
    /\ as_pc = "search"
    /\ as_results' = Append(as_results, r)
    /\ LET attempt == Len(as_results) + 1
           next == AfterSearch(attempt, r)
       IN \/ /\ next = "search"
             /\ as_pc' = "search"
             /\ as_calls' = Append(as_calls,
                    SearchCall(SearchQuery(attempt + 1, as_terms, as_args.city)))
             /\ as_outcome' = as_outcome
          \/ /\ next = "suggest"
             /\ as_pc' = "suggest"
             /\ as_calls' = Append(as_calls,
                    LLMCall("suggest_activity",
                        SuggestPrompt(as_args.city, as_args.weather, as_args.is_forecast, r)))
             /\ as_outcome' = as_outcome
          \/ /\ next = "give_up"
             /\ as_pc' = "done"
             /\ as_calls' = as_calls
             /\ as_outcome' = Return(None)
    /\ UNCHANGED <<as_args, as_terms, as_responses, as_logged>>
    /\ UNCHANGED <<di_vars, ec_vars, tr_vars, pq_vars, cl_vars>>

\* The recommendation call returns: lines 132-143.
SuggestActivityReturn(h) ==
    /\ as_pc = "suggest"
    /\ as_pc' = "done"
    /\ as_responses' = Append(as_responses, Generate(h))
    /\ as_logged' = Logged(as_logged, Generate(h))
    /\ as_outcome' = IF ~Logged(as_logged, Generate(h))
                     THEN Raise("AttributeError")
                     ELSE Suggestion(Generate(h))
    /\ UNCHANGED <<as_args, as_calls, as_results, as_terms>>
    /\ UNCHANGED <<di_vars, ec_vars, tr_vars, pq_vars, cl_vars>>

\* The caller takes the outcome; the next call starts afresh.
SuggestLeave ==
    /\ as_pc = "done"
    /\ as_pc' = "idle"
    /\ as_args' = NoArgs
    /\ as_calls' = <<>>
    /\ as_results' = <<>>
    /\ as_terms' = ""
    /\ as_responses' = <<>>
    /\ as_outcome' = NoOutcome
    /\ UNCHANGED as_logged

SuggestDone ==
    /\ SuggestLeave
    /\ UNCHANGED <<di_vars, ec_vars, tr_vars, pq_vars, cl_vars>>

(***************************************************************************)
(* agent.py: WeatherAgent.process_query.  Dates are proleptic ordinals     *)
(* (date.toordinal()); the clock read by datetime.now() is an ordinal and  *)
(* an hour.                                                                *)
(***************************************************************************)
\* str() of a non-negative integer.
RECURSIVE IntText(_)
IntText(n) ==
    IF n < 10 THEN SubSeq(DigitChars, n + 1, n + 1)
    ELSE IntText(n \div 10) \o SubSeq(DigitChars, (n % 10) + 1, (n % 10) + 1)

\* date.weekday(): Monday is 0.
Weekday(ordinal) == (ordinal + 6) % 7

\* date(2026, 11, 1).toordinal()
FirstOfNovember == 739921
DaysInNovember == 30

\* strftime('%Y-%m-%d') on the ordinals of November and December 2026.
DateText(ordinal) ==
    LET k == ordinal - FirstOfNovember
        TwoDigits(n) == IF n < 10 THEN "0" \o IntText(n) ELSE IntText(n)
    IN IF k < DaysInNovember THEN "2026-11-" \o TwoDigits(k + 1)
       ELSE "2026-12-" \o TwoDigits(k - DaysInNovember + 1)

\* Lines 260-261: the alternatives of the time reference are tried in the
\* order written.
TimePhrase(query) ==
    LET time_reference ==
            KeywordSearch(<<"tomorrow", "next", "upcoming", "this weekend", "next week",
                            "future">>, StrLower(query))
    IN IF time_reference # NoMatch THEN time_reference ELSE "the future"

\* sub in s
Contains(s, sub) == \E i \in 1..Len(s) : LiteralAt(s, i, sub)

SaturdayWeekday == 5
EveningHour == 18
DaysInWeek == 7

\* Mutant: a Saturday always counts as this weekend.
DaysToSaturdayNoEvening(today) == (SaturdayWeekday - Weekday(today.ordinal)) % DaysInWeek

\* Lines 272-274
DaysToSaturday(today) ==
    LET days_to_saturday == (SaturdayWeekday - Weekday(today.ordinal)) % DaysInWeek
    IN IF days_to_saturday = 0 /\ today.hour >= EveningHour THEN DaysInWeek
       ELSE days_to_saturday

\* Lines 277-282: the two dates looked for in the forecast.
NextSaturday(today) == today.ordinal + DaysToSaturday(today)
NextSunday(today) == NextSaturday(today) + 1

WeekDays == 7
TomorrowDays == 1
DefaultDays == 5
WeekendExtraDays == 2

\* Lines 266-293: forecast_days.  today is read only on the weekend branch.
ForecastDays(time_phrase, today) ==
    IF Contains(time_phrase, "weekend") THEN DaysToSaturday(today) + WeekendExtraDays
    ELSE IF Contains(time_phrase, "week") THEN WeekDays
    ELSE IF Contains(time_phrase, "tomorrow") THEN TomorrowDays
    ELSE DefaultDays

\* The fixed responses.
Clarification ==
    "I couldn't understand which city you're asking about. Please specify a city name clearly, like 'weather in San Francisco' or 'Tokyo weather'."
Apology(intent, city) ==
    IF intent = "current"
    THEN "I'm sorry, I couldn't get the current weather for " \o city \o "."
    ELSE "I'm sorry, I couldn't get the weather forecast for " \o city \o "."
\* Mutant: the message does not name the city.
HistoryResponseNoCity(city) == "I'm sorry, I don't have access to historical weather data yet."

\* Line 386: the response to a history query.
HistoryResponse(city) ==
    "I'm sorry, I don't have access to historical weather data for " \o city \o " yet."

\* The texts are kept in ASCII: the degree sign (U+00B0) of lines 238, 346,
\* 351 and 358 is written '^', a character no text of the agent holds.
\* Line 238
CurrentResponse(city, result) ==
    "Current weather in " \o city \o ": " \o result.temp \o "^C, " \o result.conditions

\* The lines of a forecast listing (lines 346, 358); label is "" on the
\* multi-day listing.  "*" stands for the bullet (U+2022) that opens a line.
RECURSIVE ForecastLines(_)
ForecastLines(entries) ==
    IF Len(entries) = 0 THEN ""
    ELSE LET f == entries[1].forecast
             label == entries[1].label
         IN "*" \o " " \o f.date \o (IF label = "" THEN "" ELSE " (" \o label \o ")") \o ": "
                \o IntText(f.min_temp) \o "^C to " \o IntText(f.max_temp) \o "^C, "
                \o f.conditions \o "\n" \o ForecastLines(Tail(entries))

\* Lines 318-322: the entries dated Saturday or Sunday, in list order.
RECURSIVE WeekendMatches(_, _, _)
WeekendMatches(forecasts, saturday_date, sunday_date) ==
    IF Len(forecasts) = 0 THEN <<>>
    ELSE LET f == forecasts[1]
             rest == WeekendMatches(Tail(forecasts), saturday_date, sunday_date)
         IN IF f.date = saturday_date THEN <<[forecast |-> f, label |-> "Saturday"]>> \o rest
            ELSE IF f.date = sunday_date THEN <<[forecast |-> f, label |-> "Sunday"]>> \o rest
            ELSE rest

\* Mutant: the first days are listed whatever their dates.
WeekendForecastsFirstDays(forecasts, saturday_date, sunday_date) ==
    IF Len(forecasts) >= 2
    THEN <<[forecast |-> forecasts[1], label |-> "Saturday"],
           [forecast |-> forecasts[2], label |-> "Sunday"]>>
    ELSE <<[forecast |-> forecasts[1], label |-> "Weekend"]>>

\* Mutant: only the entries found by date are listed.
WeekendForecastsFoundOnly(forecasts, saturday_date, sunday_date) ==
    WeekendMatches(forecasts, saturday_date, sunday_date)

\* Mutant: every day of the forecast is listed.
WeekendForecastsEveryDay(forecasts, saturday_date, sunday_date) ==
    [i \in 1..Len(forecasts) |-> [forecast |-> forecasts[i], label |-> "Weekend"]]

\* Lines 318-342: weekend_forecasts.
WeekendForecasts(forecasts, saturday_date, sunday_date) ==
    LET found == WeekendMatches(forecasts, saturday_date, sunday_date)
        n == Len(forecasts)
        At(date) == CHOOSE i \in 1..n : forecasts[i].date = date
    IN IF Len(found) >= 2 THEN found
       ELSE IF Len(found) = 0 /\ n >= 2
       THEN <<[forecast |-> forecasts[1], label |-> "Saturday"],
              [forecast |-> forecasts[2], label |-> "Sunday"]>>
       ELSE IF Len(found) = 0 /\ n = 1
       THEN <<[forecast |-> forecasts[1], label |-> "Weekend"]>>
       ELSE IF Len(found) = 1 /\ n >= 2
       THEN IF found[1].label = "Saturday"
            THEN IF At(saturday_date) + 1 <= n
                 THEN Append(found, [forecast |-> forecasts[At(saturday_date) + 1],
                                     label |-> "Sunday"])
                 ELSE found
            ELSE IF At(sunday_date) > 1
                 THEN <<[forecast |-> forecasts[At(sunday_date) - 1],
                         label |-> "Saturday"]>> \o found
                 ELSE found
       ELSE found

\* Lines 308-358: the forecast text, by time phrase.
ForecastResponse(city, time_phrase, forecasts, today) ==
    IF Contains(time_phrase, "weekend")
    THEN "Weather forecast for " \o city \o " this weekend:\n\n"
            \o ForecastLines(WeekendForecasts(forecasts,
                    DateText(NextSaturday(today)), DateText(NextSunday(today))))
    ELSE IF Contains(time_phrase, "tomorrow")
    THEN "Weather forecast for " \o city \o " tomorrow (" \o forecasts[1].date \o "):\n"
            \o "Temperature: " \o IntText(forecasts[1].min_temp) \o "^C to "
            \o IntText(forecasts[1].max_temp) \o "^C\n"
            \o "Conditions: " \o forecasts[1].conditions \o "\n"
            \o "Humidity: " \o IntText(forecasts[1].humidity) \o "%"
    ELSE "Weather forecast for " \o city \o " for the next " \o IntText(Len(forecasts))
            \o " days:\n\n"
            \o ForecastLines([i \in 1..Len(forecasts) |->
                                [forecast |-> forecasts[i], label |-> ""]])

\* Lines 362-366: the reading handed to the suggester, the average of the
\* first day's integer temperatures as the f-string prints a float.
FirstDayWeather(forecasts) ==
    LET total == forecasts[1].min_temp + forecasts[1].max_temp
    IN [ temp |-> IntText(total \div 2) \o (IF total % 2 = 0 THEN ".0" ELSE ".5"),
         conditions |-> forecasts[1].conditions ]

NoToday == [ordinal |-> 0, hour |-> 0]

\* A forecast for the days of the given ordinals; temperatures and humidity
\* are whole numbers here.
ForecastOn(ordinals) ==
    [ i \in 1..Len(ordinals) |->
        LET day == ordinals[i]
        IN [ date |-> DateText(day), min_temp |-> 8 + (day % 3),
             max_temp |-> 15 + (day % 4), conditions |-> "light rain", humidity |-> 70 ] ]

\* A forecast of n consecutive days from the given ordinal on.
ForecastFrom(ordinal, n) == ForecastOn([i \in 1..n |-> ordinal + i - 1])

NoPlan == [time_phrase |-> "", today |-> NoToday, forecast_days |-> 0]
NoResult == [k |-> "none", v |-> None, missing |-> <<>>]

\* A collaborator call made by process_query, in the order made.
AgentCall(kind, name, params) == [kind |-> kind, name |-> name, params |-> params]

PQ_Init ==
    /\ pq_pc = "idle"
    /\ pq_query = ""
    /\ pq_intent = NotRun
    /\ pq_resolved = NoOutcome
    /\ pq_city = None
    /\ pq_plan = NoPlan
    /\ pq_calls = <<>>
    /\ pq_result = NoResult
    /\ pq_response = None
    /\ pq_outcome = NoOutcome
    /\ api_calls = [weather |-> 0, forecast |-> 0, search |-> 0, total |-> 0]
    /\ db = <<>>
    /\ pq_count = 0

\* Mutant: the interaction is not saved.
LogInteractionUnsaved(log, query, response) == log

\* Lines 392-396: INSERT INTO interactions (query, response).
LogInteraction(log, query, response) == Append(log, [query |-> query, response |-> response])

\* The name and keyword arguments of the tool call of an intent (lines 225-228, 296-299).
ToolName(intent) ==
    IF intent = "current" THEN "get_current_weather" ELSE "get_weather_forecast"

ToolParams(intent, city, forecast_days) ==
    IF intent = "current" THEN [city |-> city]
    ELSE [city |-> city, days |-> forecast_days]

\* weather_tool.execute(...) on what get_tool gave: None has no execute.
AgentExecute(tools, intent, city, forecast_days, callable) ==
    LET tool == GetTool(tools, ToolName(intent))
    IN IF tool = NoTool
       THEN [ calls |-> <<>>,
              outcome |-> [k |-> "raise", v |-> "AttributeError", missing |-> <<>>] ]
       ELSE ToolExecute(tool, ToolParams(intent, city, forecast_days), callable)

\* Mutant: one apology for both operations.
ErrorResponseOneText(intent, city) ==
    "I'm sorry, I encountered an error getting weather for " \o city \o "."

\* Lines 257, 383: the response of the except clause.
ErrorResponse(intent, city) ==
    IF intent = "current"
    THEN "I'm sorry, I encountered an error getting weather for " \o city \o "."
    ELSE "I'm sorry, I encountered an error getting the forecast for " \o city \o "."

\* process_query is called: lines 203-213, up to the call of _extract_city.
PQ_Start(q) ==
    /\ pq_pc = "idle"
    /\ pq_count < MaxQueries
    /\ pq_count' = pq_count + 1
    /\ pq_pc' = "resolving"
    /\ pq_query' = q
    /\ pq_intent' = DetectIntent(q)
    /\ pq_calls' = <<AgentCall("extract_city", "_extract_city", [query |-> q])>>
    /\ UNCHANGED <<pq_resolved, pq_city, pq_plan, pq_result, pq_response, pq_outcome, api_calls,
                   db>>
    /\ UNCHANGED <<di_vars, ec_vars, tr_vars, as_vars, cl_vars>>

\* Mutant: a missing city does not stop the query.
ResolveBranchNoStop(o, intent) ==
    IF o.k = "raise" THEN "raise"
    ELSE IF intent = "history" THEN "history"
    ELSE "tool"

\* Lines 213-223, 258, 384: where process_query goes once _extract_city is
\* over.  (The final else of line 387 is not reached: _detect_intent gives
\* one of the three intents.)
ResolveBranch(o, intent) ==
    IF o.k = "raise" THEN "raise"
    ELSE IF o.v = None \/ o.v = "" THEN "no_city"
    ELSE IF intent = "history" THEN "history"
    ELSE "tool"

\* _extract_city raised: nothing in process_query catches it.
PQ_ResolveRaised(o) ==
    /\ pq_pc = "resolving"
    /\ ResolveBranch(o, pq_intent) = "raise"
    /\ pq_resolved' = o
    /\ pq_pc' = "done"
    /\ pq_outcome' = o
    /\ UNCHANGED <<pq_query, pq_intent, pq_city, pq_plan, pq_calls, pq_result, pq_response,
                   api_calls, db, pq_count>>
    /\ UNCHANGED <<di_vars, ec_vars, tr_vars, as_vars, cl_vars>>

\* _extract_city gave no city: lines 214-217.
PQ_NoCity(o) ==
    /\ pq_pc = "resolving"
    /\ ResolveBranch(o, pq_intent) = "no_city"
    /\ pq_resolved' = o
    /\ pq_pc' = "done"
    /\ pq_response' = Clarification
    /\ pq_outcome' = Return(Clarification)
    /\ UNCHANGED <<pq_query, pq_intent, pq_city, pq_plan, pq_calls, pq_result, api_calls, db,
                   pq_count>>
    /\ UNCHANGED <<di_vars, ec_vars, tr_vars, as_vars, cl_vars>>

\* A city and the history intent: lines 384-397.
PQ_History(o) ==
    /\ pq_pc = "resolving"
    /\ ResolveBranch(o, pq_intent) = "history"
    /\ pq_resolved' = o
    /\ pq_pc' = "done"
    /\ pq_city' = o.v
    /\ pq_response' = HistoryResponse(o.v)
    /\ pq_outcome' = Return(HistoryResponse(o.v))
    /\ db' = LogInteraction(db, pq_query, HistoryResponse(o.v))
    /\ UNCHANGED <<pq_query, pq_intent, pq_plan, pq_calls, pq_result, api_calls, pq_count>>
    /\ UNCHANGED <<di_vars, ec_vars, tr_vars, as_vars, cl_vars>>

\* A city and the current or forecast intent: lines 223-228 or 258-299, up
\* to the call of the tool's execute.  The clock is read on the weekend
\* branch only.
PQ_CallTool(o, today) ==
    /\ pq_pc = "resolving"
    /\ ResolveBranch(o, pq_intent) = "tool"
    /\ pq_resolved' = o
    /\ pq_pc' = "tooling"
    /\ pq_city' = o.v
    /\ LET time_phrase == TimePhrase(pq_query)
           weekend == Contains(time_phrase, "weekend")
           plan == IF pq_intent = "current" THEN NoPlan
                   ELSE [ time_phrase |-> time_phrase,
                          today |-> IF weekend THEN today ELSE NoToday,
                          forecast_days |-> ForecastDays(time_phrase, today) ]
       IN /\ pq_plan' = plan
          /\ pq_calls' = Append(pq_calls,
                AgentCall("execute", ToolName(pq_intent),
                          ToolParams(pq_intent, o.v, plan.forecast_days)))
    /\ UNCHANGED <<pq_query, pq_intent, pq_result, pq_response, pq_outcome, api_calls, db,
                   pq_count>>
    /\ UNCHANGED <<di_vars, ec_vars, tr_vars, as_vars, cl_vars>>

\* The registry WeatherAgentToolRegistry._initialize_tools builds, as far as
\* process_query reads it.
ConstructedTools ==
    << [name |-> "get_current_weather", required_params |-> <<"city">>, function |-> "bound"],
       [name |-> "get_weather_forecast", required_params |-> <<"city">>, function |-> "bound"] >>

\* What a bound callable does when called: return the value or raise.
Returns(v) == [k |-> "return", v |-> v, missing |-> <<>>]
CallableRaises == [k |-> "raise", v |-> "RuntimeError", missing |-> <<>>]

\* The provider call made by execute, when it came to it.
ProviderCalls(ex, name) ==
    [i \in 1..Len(ex.calls) |-> AgentCall("provider", name, ex.calls[i])]

\* Mutant: the total is not raised with the counter.
CountKeyOnly(counters, key) == [counters EXCEPT ![key] = counters[key] + 1]

\* Lines 230-231, 301-302, 245-246, 371-372
Count(counters, key) ==
    [counters EXCEPT ![key] = counters[key] + 1, !["total"] = counters["total"] + 1]

\* The response is final: lines 390-411, the interaction is saved and the
\* response returned.
PQ_Finish(response) ==
    /\ pq_pc' = "done"
    /\ pq_response' = response
    /\ pq_outcome' = Return(response)
    /\ db' = LogInteraction(db, pq_query, response)

\* Mutant: the sentinel reading is treated as any other reading.
WeatherBranchNoSentinel(outcome) ==
    IF outcome.k = "raise" THEN "error"
    ELSE IF outcome.v.temp = Absent THEN "error_counted"
    ELSE "suggest"

\* Lines 228-242: what the current branch does with execute's outcome.
\*   error          execute raised: the except clause
\*   error_counted  result['temp'] raised, after the counters were raised
\*   apology        the sentinel reading
\*   suggest        a reading: the text is composed and the suggester called
WeatherBranch(outcome) ==
    IF outcome.k = "raise" THEN "error"
    ELSE IF outcome.v.temp = Absent THEN "error_counted"
    ELSE IF outcome.v.temp = "unknown" THEN "apology"
    ELSE "suggest"

\* Mutant: an empty forecast is answered as a failed call.
ForecastBranchEmptyIsError(outcome) ==
    IF outcome.k = "raise" THEN "error"
    ELSE IF outcome.v = <<>> THEN "error"
    ELSE "suggest"

\* Lines 299-368: what the forecast branch does with execute's outcome.
ForecastBranch(outcome) ==
    IF outcome.k = "raise" THEN "error"
    ELSE IF outcome.v = <<>> THEN "apology"
    ELSE "suggest"

\* execute of the current-weather tool is over: lines 228-257, up to the
\* call of the suggester or to the return of process_query.
PQ_WeatherReturn(callable) ==
    /\ pq_pc = "tooling"
    /\ pq_intent = "current"
    /\ LET ex == AgentExecute(tr_tools, pq_intent, pq_city, pq_plan.forecast_days, callable)
           result == ex.outcome.v
           branch == WeatherBranch(ex.outcome)
           counted == Count(api_calls, "weather")
       IN /\ pq_result' = ex.outcome
          /\ pq_calls' = pq_calls \o ProviderCalls(ex, ToolName(pq_intent))
                \o (IF branch = "suggest"
                    THEN <<AgentCall("suggester", "get_activity_suggestion",
                                     [city |-> pq_city])>>
                    ELSE <<>>)
          /\ api_calls' = IF branch = "error" THEN api_calls ELSE counted
          /\ IF branch = "suggest"
             THEN /\ pq_pc' = "suggesting"
                  /\ pq_response' = CurrentResponse(pq_city, result)
                  /\ SuggestEnter(pq_city, result, FALSE)
                  /\ UNCHANGED <<pq_outcome, db>>
             ELSE /\ PQ_Finish(IF branch = "apology" THEN Apology(pq_intent, pq_city)
                               ELSE ErrorResponse(pq_intent, pq_city))
                  /\ UNCHANGED as_vars
    /\ UNCHANGED <<pq_query, pq_intent, pq_resolved, pq_city, pq_plan, pq_count>>
    /\ UNCHANGED <<di_vars, ec_vars, tr_vars, cl_vars>>

\* execute of the forecast tool is over: lines 299-383, likewise.
PQ_ForecastReturn(callable) ==
    /\ pq_pc = "tooling"
    /\ pq_intent = "forecast"
    /\ LET ex == AgentExecute(tr_tools, pq_intent, pq_city, pq_plan.forecast_days, callable)
           forecasts == ex.outcome.v
           branch == ForecastBranch(ex.outcome)
           counted == Count(api_calls, "forecast")
       IN /\ pq_result' = ex.outcome
          /\ pq_calls' = pq_calls \o ProviderCalls(ex, ToolName(pq_intent))
                \o (IF branch = "suggest"
                    THEN <<AgentCall("suggester", "get_activity_suggestion",
                                     [city |-> pq_city])>>
                    ELSE <<>>)
          /\ api_calls' = IF branch = "error" THEN api_calls ELSE counted
          /\ IF branch = "suggest"
             THEN /\ pq_pc' = "suggesting"
                  /\ pq_response' = ForecastResponse(pq_city, pq_plan.time_phrase,
                                                     forecasts, pq_plan.today)
                  /\ SuggestEnter(pq_city, FirstDayWeather(forecasts), TRUE)
                  /\ UNCHANGED <<pq_outcome, db>>
             ELSE /\ PQ_Finish(IF branch = "apology" THEN Apology(pq_intent, pq_city)
                               ELSE ErrorResponse(pq_intent, pq_city))
                  /\ UNCHANGED as_vars
    /\ UNCHANGED <<pq_query, pq_intent, pq_resolved, pq_city, pq_plan, pq_count>>
    /\ UNCHANGED <<di_vars, ec_vars, tr_vars, cl_vars>>

\* Mutant: the composed text is returned when the suggester raised.
WithSuggestionKeepsText(intent, city, response, outcome) ==
    IF outcome.k = "raise" \/ outcome.v = None \/ outcome.v = "" THEN response
    ELSE IF intent = "current" THEN response \o outcome.v
    ELSE response \o "\n" \o outcome.v

\* Mutant: a missing suggestion is answered as an error.
WithSuggestionOrApology(intent, city, response, outcome) ==
    IF outcome.k = "raise" \/ outcome.v = None \/ outcome.v = ""
    THEN ErrorResponse(intent, city)
    ELSE IF intent = "current" THEN response \o outcome.v
    ELSE response \o "\n" \o outcome.v

\* Lines 242-243 and 368-369, with the except clauses of lines 255-257 and
\* 381-383: the response once the suggester is over.
WithSuggestion(intent, city, response, outcome) ==
    IF outcome.k = "raise" THEN ErrorResponse(intent, city)
    ELSE IF outcome.v = None \/ outcome.v = "" THEN response
    ELSE IF intent = "current" THEN response \o outcome.v
    ELSE response \o "\n" \o outcome.v

\* The suggester is over: lines 242-246 or 368-372, then 390-411.  The
\* calls it made join the calls of this query.
PQ_SuggestReturn ==
    /\ pq_pc = "suggesting"
    /\ SuggestLeave
    /\ pq_calls' = pq_calls \o as_calls
    /\ LET suggestion == as_outcome.v
           response == WithSuggestion(pq_intent, pq_city, pq_response, as_outcome)
       IN /\ PQ_Finish(response)
          /\ api_calls' = IF as_outcome.k = "return" /\ suggestion # None /\ suggestion # ""
                          THEN Count(api_calls, "search")
                          ELSE api_calls
    /\ UNCHANGED <<pq_query, pq_intent, pq_resolved, pq_city, pq_plan, pq_result, pq_count>>
    /\ UNCHANGED <<di_vars, ec_vars, tr_vars, cl_vars>>

\* process_query is over; the counters and the saved interactions stay.
PQ_Done ==
    /\ pq_pc = "done"
    /\ pq_pc' = "idle"
    /\ pq_query' = ""
    /\ pq_intent' = NotRun
    /\ pq_resolved' = NoOutcome
    /\ pq_city' = None
    /\ pq_plan' = NoPlan
    /\ pq_calls' = <<>>
    /\ pq_result' = NoResult
    /\ pq_response' = None
    /\ pq_outcome' = NoOutcome
    /\ UNCHANGED <<api_calls, db, pq_count>>
    /\ UNCHANGED <<di_vars, ec_vars, tr_vars, as_vars, cl_vars>>

(***************************************************************************)
(* cost_tracker.py: CostTracker, and llm.py: LLMClient.generate with the   *)
(* tracker it owns.  Token counts are what the tokenizer makes of a text;  *)
(* they are given with the call.  Costs are in units of 1e-7 USD, so that  *)
(* the sums are exact; the timestamp of a record is left out.              *)
(***************************************************************************)
\* COST_PER_1K of the default model: 0.0006 USD per 1000 tokens.
CostPerToken == 6

\* last_call_info before the first log_call (Python's None).
NoCallInfo == [operation |-> None, input_tokens |-> 0, output_tokens |-> 0, cost |-> 0]

\* Lines 12-16: the tracker as constructed.  operation_stats is a dict,
\* here a function on the operations seen.
NewTracker ==
    [ calls |-> <<>>, total_tokens |-> [input |-> 0, output |-> 0], total_cost |-> 0,
      last_call_info |-> NoCallInfo, operation_stats |-> <<>> ]

\* Mutant: the per-operation entry is started afresh on every call.
LogCallStatsReset(tracker, operation, input_tokens, output_tokens) ==
    LET cost == input_tokens * CostPerToken + output_tokens * CostPerToken
        call_info == [ operation |-> operation, input_tokens |-> input_tokens,
                       output_tokens |-> output_tokens, cost |-> cost ]
    IN [ calls |-> Append(tracker.calls, call_info),
         total_tokens |-> [ input |-> tracker.total_tokens.input + input_tokens,
                            output |-> tracker.total_tokens.output + output_tokens ],
         total_cost |-> tracker.total_cost + cost,
         last_call_info |-> call_info,
         operation_stats |->
            (operation :> [ count |-> 1, input_tokens |-> input_tokens,
                            output_tokens |-> output_tokens, cost |-> cost ])
                @@ tracker.operation_stats ]

\* CostTracker.log_call, lines 27-65: the tracker after the call.
LogCall(tracker, operation, input_tokens, output_tokens) ==
    LET cost == input_tokens * CostPerToken + output_tokens * CostPerToken
        stats == IF operation \in DOMAIN tracker.operation_stats
                 THEN tracker.operation_stats[operation]
                 ELSE [count |-> 0, input_tokens |-> 0, output_tokens |-> 0, cost |-> 0]
        call_info == [ operation |-> operation, input_tokens |-> input_tokens,
                       output_tokens |-> output_tokens, cost |-> cost ]
    IN [ calls |-> Append(tracker.calls, call_info),
         total_tokens |-> [ input |-> tracker.total_tokens.input + input_tokens,
                            output |-> tracker.total_tokens.output + output_tokens ],
         total_cost |-> tracker.total_cost + cost,
         last_call_info |-> call_info,
         operation_stats |->
            (operation :> [ count |-> stats.count + 1,
                            input_tokens |-> stats.input_tokens + input_tokens,
                            output_tokens |-> stats.output_tokens + output_tokens,
                            cost |-> stats.cost + cost ])
                @@ tracker.operation_stats ]

CL_Init ==
    /\ ct = NewTracker
    /\ gen_log = <<>>
    /\ bs = [query |-> "", reply |-> [k |-> "none", status |-> 0, body |-> "", results |-> <<>>],
             requests |-> 0, sleeps |-> 0,
             outcome |-> NoOutcome]
    /\ wp = [provider |-> "",
             reply |-> [k |-> "none", status |-> 0, body |-> "",
                        payload |-> ("cod" :> [t |-> "str", n |-> 0, s |-> ""])],
             requests |-> 0, outcome |-> NoOutcome]
    /\ wc = [city |-> "", temp |-> 0, conditions |-> "", weather_context |-> "", query |-> ""]

\* log_call is called on the tracker.
LogCallOp(operation, input_tokens, output_tokens) ==
    /\ Len(ct.calls) < MaxCalls
    /\ ct' = LogCall(ct, operation, input_tokens, output_tokens)
    /\ UNCHANGED <<gen_log, bs, wp, wc>>
    /\ UNCHANGED <<di_vars, ec_vars, tr_vars, as_vars, pq_vars>>

\* Mutant: every call is logged, whatever came back.
GenerateLogsAlways(response) == TRUE

\* llm.py line 125: the call is logged when the value to return holds
\* 'choices' and the content lookup and log_call did not raise.
GenerateLogs(response) == HasChoices(response)

\* LLMClient.generate, lines 111-154, as one step: the handler does h, the
\* call is logged or not, the value is returned.
GenerateOp(operation, input_tokens, h, output_tokens) ==
    /\ Len(gen_log) < MaxCalls
    /\ gen_log' = Append(gen_log, [ operation |-> operation, handler |-> h.k,
                                    outcome |-> Return(Generate(h)) ])
    /\ ct' = IF GenerateLogs(Generate(h))
             THEN LogCall(ct, operation, input_tokens, output_tokens)
             ELSE ct
    /\ UNCHANGED <<bs, wp, wc>>
    /\ UNCHANGED <<di_vars, ec_vars, tr_vars, as_vars, pq_vars>>

(***************************************************************************)
(* Specifications, one per component; the other components stay at rest.   *)
(***************************************************************************)
InitIntent == DI_Init /\ EC_Init /\ TR_Init /\ AS_Init /\ PQ_Init /\ CL_Init
NextIntent == DetectIntentCall
SpecIntent == InitIntent /\ [][NextIntent]_vars

(***************************************************************************)
(* tools/brave_search.py: BraveSearch.search.  The reply of the search API *)
(* is given by its status and by the descriptions of the results of its    *)
(* payload (None for a result without 'description'); a payload that is    *)
(* not JSON makes response.json() raise.                                   *)
(***************************************************************************)
MinQueryLength == 3

\* Line 61-62: the terms of administrative and contact pages.
AdminTerms ==
    <<"address:", "phone:", "contact", "directions to", "office hours", "welcome to",
      "official website">>

\* Mutant: an exception of the request is let through.
SearchCaughtNothing(outcome) == outcome

\* Lines 77-79: except Exception: return None.
SearchCaught(outcome) == IF outcome.k = "raise" THEN Return(None) ELSE outcome

\* Lines 39-79: the HTTP requests made, the sleeps taken and the outcome of
\* search(query) when the API answers with reply.
Search(query, reply) ==
    LET \* r.get("description", "")
        Description(r) == IF r = None THEN "" ELSE r
        Kept(r) == \A t \in 1..Len(AdminTerms) : ~Contains(StrLower(Description(r)), AdminTerms[t])
        filtered_results == SelectSeq(reply.results, Kept)
        attempt ==
            IF reply.k = "exception" THEN Raise("RequestException")
            ELSE IF reply.status = 200
            THEN IF reply.body = "malformed" THEN Raise("JSONDecodeError")
                 ELSE IF reply.results = <<>> THEN Return(None)
                 ELSE IF filtered_results = <<>> THEN Return(None)
                 ELSE IF filtered_results[1] = None THEN Raise("KeyError")
                 ELSE Return(filtered_results[1])
            ELSE Return(None)
    IN IF query = "" \/ Len(Strip(query)) < MinQueryLength
       THEN [requests |-> 0, sleeps |-> 0, outcome |-> Return(None)]
       ELSE [requests |-> 1,
             sleeps |-> IF reply.k = "status" /\ reply.status = 429 THEN 1 ELSE 0,
             outcome |-> SearchCaught(attempt)]

\* One call of search: the reply is recorded when a request was made.
SearchOp(query, reply) ==
    /\ LET done == Search(query, reply)
       IN bs' = [query |-> query,
                 reply |-> IF done.requests = 0
                           THEN [k |-> "none", status |-> 0, body |-> "", results |-> <<>>]
                           ELSE reply]
                    @@ done
    /\ UNCHANGED <<ct, gen_log, wp, wc>>
    /\ UNCHANGED <<di_vars, ec_vars, tr_vars, as_vars, pq_vars>>

(***************************************************************************)
(* tools/weather_providers.py: get_current_weather of OpenWeatherProvider  *)
(* and of WeatherAPIProvider.  A JSON value is [t, n, s]: a number n when  *)
(* t = "num", a string s when t = "str".  A payload maps the paths it      *)
(* holds to their values.                                                  *)
(***************************************************************************)
\* Lines 56-61 and 148-153: _create_error_response.
CreateErrorResponse ==
    [temp |-> [t |-> "str", n |-> 0, s |-> "unknown"],
     humidity |-> [t |-> "str", n |-> 0, s |-> "unknown"],
     conditions |-> [t |-> "str", n |-> 0, s |-> "Could not retrieve weather data"]]

\* Mutant: an exception of the request is let through.
WeatherCaughtNothing(outcome) == outcome

\* Lines 52-54 and 144-146: except Exception: return the error response.
WeatherCaught(outcome) ==
    IF outcome.k = "raise" THEN Return(CreateErrorResponse) ELSE outcome

\* Lines 32-54 and 124-146: the outcome of get_current_weather when the
\* weather API answers with reply.
GetCurrentWeather(provider, reply) ==
    LET \* Lines 47-51 and 139-143: the paths each provider reads in the payload.
        paths ==
            IF provider = "OpenWeatherProvider"
            THEN [temp |-> "main.temp", humidity |-> "main.humidity",
                  conditions |-> "weather.0.description"]
            ELSE [temp |-> "current.temp_c", humidity |-> "current.humidity",
                  conditions |-> "current.condition.text"]
        data == reply.payload
        attempt ==
            IF reply.k = "exception" THEN Raise("RequestException")
            ELSE IF reply.status # 200 THEN Return(CreateErrorResponse)
            ELSE IF reply.body = "malformed" THEN Raise("JSONDecodeError")
            ELSE IF \E f \in DOMAIN paths : paths[f] \notin DOMAIN data THEN Raise("KeyError")
            ELSE Return([f \in DOMAIN paths |-> data[paths[f]]])
    IN WeatherCaught(attempt)

\* One call of get_current_weather on a provider.
GetCurrentWeatherOp(provider, reply) ==
    /\ wp' = [provider |-> provider, reply |-> reply, requests |-> 1,
              outcome |-> GetCurrentWeather(provider, reply)]
    /\ UNCHANGED <<ct, gen_log, bs, wc>>
    /\ UNCHANGED <<di_vars, ec_vars, tr_vars, as_vars, pq_vars>>

(***************************************************************************)
(* tools/brave_search.py: the query construction of the rule-based         *)
(* BraveSearch.get_activity_suggestion (lines 90-120).  Temperatures are   *)
(* whole degrees.                                                          *)
(***************************************************************************)
HotAbove == 30
ColdBelow == 5
NiceFrom == 15
NiceTo == 25

\* Mutant: the boundary temperatures are taken as hot and cold.
WeatherContextInclusive(city, temp, conditions) ==
    IF Contains(conditions, "rain") \/ Contains(conditions, "storm")
    THEN [weather_context |-> "indoor",
          query |-> "famous indoor museum gallery " \o city \o " -tripadvisor -booking"]
    ELSE IF Contains(conditions, "snow")
    THEN [weather_context |-> "indoor",
          query |-> "best indoor attractions " \o city \o " museum gallery -tripadvisor -booking"]
    ELSE IF temp >= HotAbove
    THEN [weather_context |-> "indoor",
          query |-> "famous shopping mall museum gallery aquarium " \o city \o " -tripadvisor -yelp"]
    ELSE IF temp <= ColdBelow
    THEN [weather_context |-> "indoor",
          query |-> "indoor cultural attractions " \o city \o " museum gallery -tripadvisor -booking"]
    ELSE IF Contains(conditions, "clear") /\ NiceFrom <= temp /\ temp <= NiceTo
    THEN [weather_context |-> "outdoor",
          query |-> "must visit landmark monument park " \o city \o " -tripadvisor -booking"]
    ELSE [weather_context |-> "general",
          query |-> "most famous landmark monument " \o city \o " -tripadvisor -booking"]

\* Lines 97-120: weather_context and query, of the temperature and of the
\* lower-cased conditions.
WeatherContext(city, temp, conditions) ==
    IF Contains(conditions, "rain") \/ Contains(conditions, "storm")
    THEN [weather_context |-> "indoor",
          query |-> "famous indoor museum gallery " \o city \o " -tripadvisor -booking"]
    ELSE IF Contains(conditions, "snow")
    THEN [weather_context |-> "indoor",
          query |-> "best indoor attractions " \o city \o " museum gallery -tripadvisor -booking"]
    ELSE IF temp > HotAbove
    THEN [weather_context |-> "indoor",
          query |-> "famous shopping mall museum gallery aquarium " \o city \o " -tripadvisor -yelp"]
    ELSE IF temp < ColdBelow
    THEN [weather_context |-> "indoor",
          query |-> "indoor cultural attractions " \o city \o " museum gallery -tripadvisor -booking"]
    ELSE IF Contains(conditions, "clear") /\ NiceFrom <= temp /\ temp <= NiceTo
    THEN [weather_context |-> "outdoor",
          query |-> "must visit landmark monument park " \o city \o " -tripadvisor -booking"]
    ELSE [weather_context |-> "general",
          query |-> "most famous landmark monument " \o city \o " -tripadvisor -booking"]

\* Lines 90-120 of get_activity_suggestion(city, weather): the conditions
\* are lower-cased, then the context and the query are chosen.
ConstructQuery(city, temp, conditions) ==
    /\ wc' = [city |-> city, temp |-> temp, conditions |-> conditions]
                @@ WeatherContext(city, temp, StrLower(conditions))
    /\ UNCHANGED <<ct, gen_log, bs, wp>>
    /\ UNCHANGED <<di_vars, ec_vars, tr_vars, as_vars, pq_vars>>

InitAtRest == DI_Init0 /\ EC_Init /\ TR_Init /\ AS_Init /\ PQ_Init /\ CL_Init
NextCity ==
    \/ \E q \in { "What's the weather in Tokyo?", "weather in Zzqqxx", "Tokyo weather",
                 "What is the weather like in new york today?", "Springfield, IL",
                 "Paris", "is it raining near  los angeles", "forecast at x" } :
            ExtractCityCall(q)
    \/ \E h \in HandlerOutcomes : ExtractCityReturn(h)
    \/ ExtractCityDone
SpecCity == InitAtRest /\ [][NextCity]_vars

\* The keyword arguments of a call are a dict from some parameter names to
\* values; the bound callable returns a value or raises.
NextTool ==
    \E tool \in ToolPool,
       params \in UNION { [D -> {"a", "b"}] : D \in SUBSET {"city", "days", "units"} },
       callable \in { [k |-> "return", v |-> "result1", missing |-> <<>>],
                      [k |-> "return", v |-> "result2", missing |-> <<>>],
                      [k |-> "raise", v |-> "RuntimeError", missing |-> <<>>] } :
        ToolExecuteCall(tool, params, callable)
SpecTool == InitAtRest /\ [][NextTool]_vars

NextRegistry == \E tool \in ToolPool : RegisterTool(tool)
SpecRegistry == InitAtRest /\ [][NextRegistry]_vars

\* The suggester alone, on every argument and every answer of its collaborators.
NextSuggester ==
    \/ \E city \in {"Paris", "Seattle"},
          weather \in { [temp |-> "20", conditions |-> "clear"],
                        [temp |-> "3.5", conditions |-> "light snow"] },
          is_forecast \in BOOLEAN :
            SuggestCall(city, weather, is_forecast)
    \/ \E h \in TextOutcomes : SuggestTermsReturn(h)
    \* BraveSearch.search returns None or the description of the first result
    \* kept, which may be the empty string.
    \/ \E r \in {None, "", "The Louvre is the world's most-visited museum.",
                 "Pike Place Market is a public market."} : SuggestSearchReturn(r)
    \/ \E h \in TextOutcomes : SuggestActivityReturn(h)
    \/ SuggestDone
SpecSuggester == InitAtRest /\ [][NextSuggester]_vars

\* The agent as WeatherAgent.__init__ leaves it: the registry holds the
\* tools _initialize_tools registered (agent.py lines 38-69; web_search and
\* get_activity_suggestion, which process_query never looks up, are left
\* out), the counters are zero and the interactions table is taken empty.
InitAgent ==
    /\ DI_Init0 /\ EC_Init /\ AS_Init /\ PQ_Init /\ CL_Init
    /\ tr_tools = ConstructedTools
    /\ tr_log = ConstructedTools
    /\ tx = NoExec

\* The answers of the collaborators of one query.
AgentCityOutcomes == {Return(None), Return("Paris"), Raise("KeyError")}
\* The clock: a day of the week of Monday 2 November 2026 and an hour.
AgentTodays ==
    [ordinal : (FirstOfNovember + 1)..(FirstOfNovember + 7), hour : {0, 17, 18, 19}]
AgentTextOutcomes ==
    { [k |-> "timeout", body |-> "null", content |-> ""],
      [k |-> "json", body |-> "completion",
       content |-> "\n\nRecommended Activity: Visit the Louvre.\n"] }

NextSuggesterSteps ==
    \/ \E h \in AgentTextOutcomes : SuggestTermsReturn(h)
    \/ \E r \in {None, "The Louvre is the world's most-visited museum."} :
            SuggestSearchReturn(r)
    \/ \E h \in AgentTextOutcomes : SuggestActivityReturn(h)

NextQuery ==
    \/ \E q \in { "What's the weather in Paris?", "Paris forecast",
                 "forecast for Paris tomorrow", "Paris forecast for this weekend",
                 "Paris forecast next week", "weather history for Paris" } : PQ_Start(q)
    \/ \E o \in AgentCityOutcomes : PQ_ResolveRaised(o)
    \/ \E o \in AgentCityOutcomes : PQ_NoCity(o)
    \/ \E o \in AgentCityOutcomes : PQ_History(o)
    \/ \E o \in AgentCityOutcomes, today \in AgentTodays : PQ_CallTool(o, today)
    \* The weather callable returns a reading, the providers' sentinel reading
    \* or a value without 'temp', or raises.
    \/ \E c \in
            { Returns([temp |-> "20", conditions |-> "clear"]),
            Returns([temp |-> "unknown", conditions |-> "Could not retrieve weather data"]),
            Returns([temp |-> Absent, conditions |-> Absent]),
            CallableRaises } :
            PQ_WeatherReturn(c)
    \* The forecast callable returns no day, one day, the days up to a
    \* Saturday, a Saturday and Sunday in the middle of the list, the days
    \* from a Sunday on, or days with gaps; or raises.
    \/ \E c \in
            { Returns(<<>>), Returns(ForecastFrom(FirstOfNovember + 3, 1)),
            Returns(ForecastFrom(FirstOfNovember + 3, 4)),
            Returns(ForecastFrom(FirstOfNovember + 3, 5)),
            Returns(ForecastFrom(FirstOfNovember + 5, 4)),
            Returns(ForecastFrom(FirstOfNovember + 7, 2)),
            Returns(ForecastOn(<<FirstOfNovember + 5, FirstOfNovember + 6, FirstOfNovember + 8>>)),
            Returns(ForecastOn(<<FirstOfNovember + 4, FirstOfNovember + 7, FirstOfNovember + 8>>)),
            CallableRaises } :
            PQ_ForecastReturn(c)
    \/ NextSuggesterSteps
    \/ PQ_SuggestReturn
    \/ PQ_Done
SpecQuery == InitAgent /\ [][NextQuery]_vars

\* process_query with every collaborator call returning: a step that can be
\* taken is taken.  Queries of each intent, a Monday morning and a
\* Saturday evening, and of each collaborator an answer, a failure value
\* and an exception.
NextQueryReturning ==
    \/ \E q \in { "What's the weather in Paris?", "Paris forecast for this weekend",
                 "forecast for Paris tomorrow", "weather history for Paris" } : PQ_Start(q)
    \/ \E o \in AgentCityOutcomes : PQ_ResolveRaised(o)
    \/ \E o \in AgentCityOutcomes : PQ_NoCity(o)
    \/ \E o \in AgentCityOutcomes : PQ_History(o)
    \/ \E o \in AgentCityOutcomes,
          today \in { [ordinal |-> FirstOfNovember + 1, hour |-> 0],
                      [ordinal |-> FirstOfNovember + 6, hour |-> 19] } : PQ_CallTool(o, today)
    \/ \E c \in
            { Returns([temp |-> "20", conditions |-> "clear"]),
            Returns([temp |-> "unknown", conditions |-> "Could not retrieve weather data"]),
            CallableRaises } :
            PQ_WeatherReturn(c)
    \/ \E c \in
            { Returns(<<>>), Returns(ForecastFrom(FirstOfNovember + 3, 5)), CallableRaises } :
            PQ_ForecastReturn(c)
    \/ NextSuggesterSteps
    \/ PQ_SuggestReturn
    \/ PQ_Done
SpecQueryReturning ==
    InitAgent /\ [][NextQueryReturning]_vars /\ WF_vars(NextQueryReturning)

\* The agent with its tools re-registered between queries: any descriptor
\* of the two weather tools that asks for the city, alone or with the days.
NextDispatch ==
    \/ /\ pq_pc = "idle"
       /\ \E tool \in { t \in ToolPool :
                            t.required_params \in {<<"city">>, <<"city", "days">>} } :
                RegisterTool(tool)
    \/ \E q \in {"What's the weather in Paris?", "forecast for Paris tomorrow"} : PQ_Start(q)
    \/ \E today \in AgentTodays : PQ_CallTool(Return("Paris"), today)
    \/ \E c \in {Returns([temp |-> "20", conditions |-> "clear"]), CallableRaises} :
            PQ_WeatherReturn(c)
    \/ \E c \in {Returns(ForecastFrom(FirstOfNovember + 3, 1)), CallableRaises} :
            PQ_ForecastReturn(c)
    \/ NextSuggesterSteps
    \/ PQ_SuggestReturn
    \/ PQ_Done
SpecDispatch == InitAgent /\ [][NextDispatch]_vars

\* A cost tracker on which log_call is called.
NextLedger ==
    \E operation \in {"verify_city", "search_terms", "suggest_activity"},
       input_tokens \in {3, 7}, output_tokens \in {0, 5} :
        LogCallOp(operation, input_tokens, output_tokens)
SpecLedger == InitAtRest /\ [][NextLedger]_vars

\* An LLM client on which generate is called: the handler times out, fails
\* otherwise, or hands back a body.
NextGenerate ==
    \E operation \in {"verify_city", "search_terms"},
       input_tokens \in {3, 7}, output_tokens \in {0, 5},
       h \in { [k |-> "timeout", body |-> "null", content |-> ""],
               [k |-> "exception", body |-> "null", content |-> ""],
               [k |-> "json", body |-> "error_object", content |-> ""],
               [k |-> "json", body |-> "bad_choices", content |-> ""],
               [k |-> "json", body |-> "completion", content |-> "indoor museum"] } :
        GenerateOp(operation, input_tokens, h, output_tokens)
SpecGenerate == InitAtRest /\ [][NextGenerate]_vars

\* The search API fails the request or answers with a status and, on 200, a
\* payload; a weather API likewise, its payloads being one of each provider,
\* one without the conditions, one without the reading and one without any.
NextBoundary ==
    \/ \E query \in {"", " ", "     ", "ab", " ab ", "a b", "abc", "museum Paris"},
          reply \in
            { [k |-> "exception", status |-> 0, body |-> "", results |-> <<>>],
              [k |-> "status", status |-> 429, body |-> "", results |-> <<>>],
              [k |-> "status", status |-> 500, body |-> "", results |-> <<>>],
              [k |-> "status", status |-> 200, body |-> "malformed", results |-> <<>>] }
                \cup { [k |-> "status", status |-> 200, body |-> "json", results |-> r] :
                        r \in { <<>>,
                                <<"Contact us">>,
                                <<"Official Website", "Phone: 555">>,
                                <<"Louvre museum">>,
                                <<"Welcome to Paris", "Louvre museum">>,
                                <<"A garden walk", "Louvre museum">>,
                                <<None>>,
                                <<"Directions to park", None>> } } :
            SearchOp(query, reply)
    \/ \E provider \in {"OpenWeatherProvider", "WeatherAPIProvider"},
          reply \in
            { [k |-> "exception", status |-> 0, body |-> "", payload |-> ("cod" :> [t |-> "str", n |-> 0, s |-> ""])],
              [k |-> "status", status |-> 401, body |-> "json", payload |-> ("cod" :> [t |-> "str", n |-> 0, s |-> "404"])],
              [k |-> "status", status |-> 404, body |-> "json", payload |-> ("cod" :> [t |-> "str", n |-> 0, s |-> "404"])],
              [k |-> "status", status |-> 200, body |-> "malformed", payload |-> ("cod" :> [t |-> "str", n |-> 0, s |-> ""])] }
                \cup { [k |-> "status", status |-> 200, body |-> "json", payload |-> d] :
                        d \in { ("main.temp" :> [t |-> "num", n |-> 12, s |-> ""])
                                  @@ ("main.humidity" :> [t |-> "num", n |-> 60, s |-> ""])
                                  @@ ("weather.0.description" :> [t |-> "str", n |-> 0, s |-> "light rain"]),
                                ("current.temp_c" :> [t |-> "num", n |-> 31, s |-> ""])
                                  @@ ("current.humidity" :> [t |-> "num", n |-> 40, s |-> ""])
                                  @@ ("current.condition.text" :> [t |-> "str", n |-> 0, s |-> "Sunny"]),
                                ("main.temp" :> [t |-> "num", n |-> 12, s |-> ""])
                                  @@ ("main.humidity" :> [t |-> "num", n |-> 60, s |-> ""]),
                                ("current.humidity" :> [t |-> "num", n |-> 40, s |-> ""])
                                  @@ ("current.condition.text" :> [t |-> "str", n |-> 0, s |-> "Sunny"]),
                                ("cod" :> [t |-> "str", n |-> 0, s |-> "200"]) } } :
            GetCurrentWeatherOp(provider, reply)

SpecBoundary == InitAtRest /\ [][NextBoundary]_vars

\* The readings given to the rule-based suggester: temperatures on both
\* sides of each threshold and on it, conditions naming none, one or two of
\* the words the rules look for.
NextFraming ==
    \E city \in {"Seattle"},
       temp \in {0 - 3, 4, 5, 6, 14, 15, 16, 20, 24, 25, 26, 29, 30, 31, 35},
       conditions \in {"clear sky", "Clear", "light rain", "Thunderstorm", "light snow",
                       "overcast clouds", "rain and snow", "mist"} :
        ConstructQuery(city, temp, conditions)

SpecFraming == InitAtRest /\ [][NextFraming]_vars


(***************************************************************************)
(* Claims about intent detection.                                          *)
(***************************************************************************)
\* A keyword of the class occurs in the lower-cased query between word
\* boundaries.
HasKeyword(kws, q) ==
    LET lowered == StrLower(q)
    IN \E a \in 1..Len(kws) : \E i \in 1..Len(q) : AltMatchesAt(lowered, i, kws[a])

HasCurrent(q) == HasKeyword(CurrentKeywords, q)
HasHistory(q) == HasKeyword(HistoryKeywords, q)
HasForecast(q) == HasKeyword(ForecastKeywords, q)

\* C1: _detect_intent is a fixed-priority decision list: a current keyword
\* gives 'current'; otherwise a history keyword gives 'history'; otherwise a
\* forecast keyword gives 'forecast'; a query with no keyword gives 'current'.
C1_IntentDecisionList ==
    LET current == HasCurrent(di_query)
        history == HasHistory(di_query)
        forecast == HasForecast(di_query)
    IN di_intent # NotRun =>
        /\ current => di_intent = "current"
        /\ (~current /\ history) => di_intent = "history"
        /\ (~current /\ ~history /\ forecast) => di_intent = "forecast"
        /\ (~current /\ ~history /\ ~forecast) => di_intent = "current"

\* C1 witness: a query holding keywords of two classes was classified by the
\* higher one.
C1_Witness ==
    /\ di_intent = "history"
    /\ HasHistory(di_query)
    /\ HasForecast(di_query)

\* C2 as stated: a forecast keyword without a current keyword gives
\* 'forecast'.  (Refuted by a query that also holds a history keyword.)
C2_ForecastUnlessCurrent ==
    (di_intent # NotRun /\ HasForecast(di_query) /\ ~HasCurrent(di_query))
        => di_intent = "forecast"

\* C2 amended: a forecast keyword with neither a current nor a history
\* keyword gives 'forecast'.
C2_ForecastUnlessCurrentOrHistory ==
    (di_intent # NotRun /\ HasForecast(di_query)
        /\ ~HasCurrent(di_query) /\ ~HasHistory(di_query))
        => di_intent = "forecast"

\* C2 witness: a forecast query, written with a capital, was classified.
C2_Witness ==
    /\ di_intent = "forecast"
    /\ HasForecast(di_query)
    /\ di_query # StrLower(di_query)

(***************************************************************************)
(* Claims about location resolution.                                       *)
(***************************************************************************)
\* _extract_city has finished on a completion whose content decoded to a
\* JSON object.
DecidedOnObject ==
    /\ ec_pc = "done"
    /\ HasChoices(ec_response)
    /\ ec_response.content.kind = "object"

Verdict == ec_response.content.obj

HighConfidence(o) ==
    o.is_valid = "true" /\ o.confidence.k = "num" /\ o.confidence.v > ConfidenceThreshold

Ambiguous(o) ==
    o.is_valid = "true" /\ o.alternates.k = "list" /\ Len(o.alternates.items) > 0

\* C3 as stated: an object with is_valid true and confidence > 0.7 makes the
\* resolver return the city the LLM gave, whatever the candidate was.
\* (Refuted: the accepting branch reads result['country'] before returning.)
C3_HighConfidenceReturnsCity ==
    (DecidedOnObject /\ HighConfidence(Verdict) /\ Verdict.city # Absent)
        => ec_outcome = Return(Verdict.city)

\* C4 as stated: is_valid true with a non-empty alternates list makes the
\* resolver return the city the LLM gave, whatever the confidence.
\* (Refuted: a confidence that is no number, or a missing country, raises.)
C4_AmbiguousReturnsCity ==
    (DecidedOnObject /\ Ambiguous(Verdict) /\ Verdict.city # Absent)
        => ec_outcome = Return(Verdict.city)

\* C5 as stated: a verification object that is neither (is_valid and
\* confidence > 0.7) nor (is_valid and alternates non-empty) makes the
\* resolver return None.  (Refuted: is_valid true with a confidence that is
\* no number raises in the comparison.)
C5_OtherwiseNone ==
    (DecidedOnObject /\ ~HighConfidence(Verdict)
        /\ ~(Verdict.is_valid = "true" /\ AlternatesTruthy(Verdict)))
        => ec_outcome = Return(None)

\* C6 as stated: whatever the LLM call gives back, _extract_city returns a
\* city or None and raises nothing.  (Refuted: only JSONDecodeError is caught.)
C6_ResolutionNeverRaises ==
    ec_pc = "done" => ec_outcome.k = "return"

\* C7: a running or finished resolution has issued exactly one LLM call, tagged
\* verify_city, about the candidate when a pattern matched and about the full
\* query otherwise; a city is returned only after that call.
C7_OneVerifyCall ==
    /\ ec_pc \in {"awaiting", "done"} =>
        /\ Len(ec_llm_calls) = 1
        /\ ec_llm_calls[1].operation = "verify_city"
        /\ ec_llm_calls[1].subject
              = (IF ec_candidate # None THEN ec_candidate ELSE ec_query)
    /\ (ec_outcome.k = "return" /\ ec_outcome.v # None) =>
        /\ Len(ec_llm_calls) = 1
        /\ ec_llm_calls[1].operation = "verify_city"
    /\ ec_pc = "idle" => ec_llm_calls = <<>>

\* C7 witness: a pattern gave a candidate, the LLM was asked about it and the
\* resolver returned a different city.
C7_Witness ==
    /\ ec_pc = "done"
    /\ ec_candidate # None
    /\ ec_candidate # ec_query
    /\ ec_llm_calls[1].subject = ec_candidate
    /\ ec_outcome.k = "return"
    /\ ec_outcome.v \notin {None, ec_candidate}

(***************************************************************************)
(* Claims about the tool registry.                                         *)
(***************************************************************************)
\* The required parameters of the executed tool that the call did not supply.
AbsentRequired ==
    { tx.tool.required_params[i] : i \in 1..Len(tx.tool.required_params) }
        \ DOMAIN tx.params

\* Position of a name in the executed tool's required_params.
RequiredIndex(p) ==
    CHOOSE i \in 1..Len(tx.tool.required_params) : tx.tool.required_params[i] = p

\* C8: execute without every required parameter fails with the error that
\* lists exactly the absent required names, in required_params order, and the
\* callable is not called.
C8_MissingParameters ==
    (tx.ran /\ AbsentRequired # {}) =>
        /\ tx.outcome.k = "raise"
        /\ tx.outcome.v = "ValueError: Missing required parameters"
        /\ { tx.outcome.missing[i] : i \in 1..Len(tx.outcome.missing) } = AbsentRequired
        /\ Len(tx.outcome.missing) = Cardinality(AbsentRequired)
        /\ \A i, j \in 1..Len(tx.outcome.missing) :
              i < j => RequiredIndex(tx.outcome.missing[i])
                          < RequiredIndex(tx.outcome.missing[j])
        /\ tx.calls = <<>>

\* C8 witness: of two required parameters one was supplied, and the error
\* names the other.
C8_Witness ==
    /\ tx.ran
    /\ tx.tool.required_params = <<"days", "city">>
    /\ DOMAIN tx.params = {"days", "units"}
    /\ tx.outcome.missing = <<"city">>

\* C9: with every required parameter supplied, execute fails with the
\* unbound-tool error when no callable is attached, and otherwise calls the
\* callable once with exactly the supplied parameters and does what the
\* callable does; when parameters are missing and no callable is attached,
\* the missing-parameter error is the one raised.
C9_UnboundOrForward ==
    tx.ran =>
        /\ (AbsentRequired = {} /\ tx.tool.function = None) =>
              (tx.outcome = UnboundError /\ tx.calls = <<>>)
        /\ (AbsentRequired = {} /\ tx.tool.function # None) =>
              (tx.calls = <<tx.params>> /\ tx.outcome = tx.callable)
        /\ (AbsentRequired # {} /\ tx.tool.function = None) =>
              tx.outcome.v = "ValueError: Missing required parameters"

\* C9 witness: a bound tool was called with its required parameter and one
\* more, and returned the callable's value.
C9_Witness ==
    /\ tx.ran
    /\ tx.tool.required_params = <<"city">>
    /\ tx.tool.function # None
    /\ DOMAIN tx.params = {"city", "units"}
    /\ tx.calls = <<tx.params>>
    /\ tx.outcome = [k |-> "return", v |-> "result2", missing |-> <<>>]

\* Names a registry may be asked about: the registrable ones and one that is
\* never registered.
LookupNames == ToolNames \cup {"web_search"}

RegisteredAt(name) == { i \in 1..Len(tr_log) : tr_log[i].name = name }

LastRegistered(name) ==
    tr_log[CHOOSE i \in RegisteredAt(name) : \A j \in RegisteredAt(name) : j <= i]

\* C10: get_tool gives the descriptor most recently registered under the
\* name, and None for a name never registered; list_tools holds exactly one
\* entry per registered name, that of its latest descriptor.
C10_LastWriteWins ==
    /\ \A name \in LookupNames :
          IF RegisteredAt(name) = {}
          THEN GetTool(tr_tools, name) = NoTool
          ELSE GetTool(tr_tools, name) = LastRegistered(name)
    /\ Len(ListTools(tr_tools)) = Cardinality({ tr_log[i].name : i \in 1..Len(tr_log) })
    /\ \A name \in LookupNames :
          RegisteredAt(name) # {} =>
              \E i \in 1..Len(tr_tools) :
                  /\ ListTools(tr_tools)[i].name = name
                  /\ ListTools(tr_tools)[i].required_params
                        = LastRegistered(name).required_params
                  /\ \A j \in 1..Len(tr_tools) :
                        ListTools(tr_tools)[j].name = name => j = i

\* C10 witness: a name was registered, then another, then the first again with
\* a different descriptor.
C10_Witness ==
    /\ Len(tr_log) = 3
    /\ tr_log[1].name = tr_log[3].name
    /\ tr_log[1] # tr_log[3]
    /\ tr_log[2].name # tr_log[1].name
    /\ GetTool(tr_tools, tr_log[1].name) = tr_log[3]
    /\ GetTool(tr_tools, tr_log[2].name) = tr_log[2]

(***************************************************************************)
(* Claims about the activity suggester.                                    *)
(***************************************************************************)
\* The search calls among the calls of the run, in order.
SearchCalls == SelectSeq(as_calls, LAMBDA c : c.kind = "search")
LLMCalls == SelectSeq(as_calls, LAMBDA c : c.kind = "llm")

\* An answer of the search client that carries no snippet.
EmptyAnswers == {None, ""}
AllEmpty(results) == \A i \in 1..Len(results) : results[i] \in EmptyAnswers

\* C11: when the search client answers empty three times in a row, the
\* suggester returns null (it does not raise) after exactly three search
\* calls: it does not give up before the third empty answer and sends no
\* fourth search.
C11_ThreeEmptySearchesGiveNull ==
    /\ Len(SearchCalls) <= 3
    /\ (Len(as_results) >= 3 /\ AllEmpty(SubSeq(as_results, 1, 3)))
            => /\ as_pc = "done"
               /\ as_outcome = Return(None)
               /\ Len(SearchCalls) = 3
               /\ Len(as_results) = 3
    /\ (as_pc = "done" /\ as_results # <<>> /\ AllEmpty(as_results))
            => /\ Len(as_results) = 3
               /\ Len(SearchCalls) = 3
               /\ as_outcome = Return(None)

C11_Witness ==
    /\ as_pc = "done"
    /\ Len(as_results) = 3
    /\ as_results[1] = None /\ as_results[2] = "" /\ as_results[3] = None
    /\ as_outcome = Return(None)
    /\ Len(SearchCalls) = 3

\* The query the chain is to send in the i-th place.
ChainQuery(i) ==
    IF i = 1 THEN as_terms \o " attractions " \o as_args.city
    ELSE IF i = 2
    THEN "most famous landmarks monuments museums attractions " \o as_args.city
    ELSE "tourist attractions " \o as_args.city

\* The number of empty answers before the first non-empty one.
LeadingEmpty(results) ==
    IF AllEmpty(results) THEN Len(results)
    ELSE (CHOOSE i \in 1..Len(results) :
            /\ results[i] \notin EmptyAnswers
            /\ AllEmpty(SubSeq(results, 1, i - 1))) - 1

\* C12: the fallback chain sends '{generated terms} attractions {city}',
\* then the landmarks query, then 'tourist attractions {city}', in that
\* order; a query is sent only when every earlier one was answered empty,
\* none is sent after a non-empty answer, and once a chain that was begun
\* is over the number of search calls is 1 plus the number of leading empty
\* answers, at most 3.
C12_FallbackChainOrder ==
    /\ \A i \in 1..Len(SearchCalls) :
            /\ SearchCalls[i].query = ChainQuery(i)
            /\ AllEmpty(SubSeq(as_results, 1, i - 1))
    /\ \A i \in 1..Len(as_results) :
            as_results[i] \notin EmptyAnswers => Len(SearchCalls) = i
    /\ (as_pc \in {"suggest", "done"} /\ SearchCalls # <<>>) =>
            Len(SearchCalls) = (IF 1 + LeadingEmpty(as_results) < 3
                                THEN 1 + LeadingEmpty(as_results) ELSE 3)

C12_Witness ==
    /\ as_pc = "done"
    /\ as_terms = "outdoor park garden walking"
    /\ Len(as_results) = 2
    /\ as_results[1] = "" /\ as_results[2] \notin EmptyAnswers
    /\ Len(SearchCalls) = 2
    /\ SearchCalls[1].query = "outdoor park garden walking attractions Seattle"
    /\ SearchCalls[2].query = "most famous landmarks monuments museums attractions Seattle"

\* The stages in their order; the search stage repeats along the fallback chain.
StageRank(pc) ==
    IF pc = "idle" THEN 0 ELSE IF pc = "terms" THEN 1 ELSE IF pc = "search" THEN 2
    ELSE IF pc = "suggest" THEN 3 ELSE 4

IsPrefix(s, t) == Len(s) <= Len(t) /\ SubSeq(t, 1, Len(s)) = s

\* The calls of the run so far are in stage order.
C13_CallOrder ==
    /\ as_calls # <<>> =>
            /\ as_calls[1].kind = "llm" /\ as_calls[1].operation = "search_terms"
            /\ \A i \in 2..Len(as_calls) : as_calls[i].operation # "search_terms"
    /\ \A i \in 1..Len(as_calls) :
            as_calls[i].operation = "suggest_activity" =>
                /\ i = Len(as_calls)
                /\ \A j \in 2..(i - 1) : as_calls[j].kind = "search"
                /\ \E k \in 1..Len(as_results) : as_results[k] \notin EmptyAnswers
    /\ AllEmpty(as_results) =>
            \A i \in 1..Len(as_calls) : as_calls[i].operation # "suggest_activity"
    /\ as_pc = "suggest" <=>
            (as_calls # <<>> /\ as_calls[Len(as_calls)].operation = "suggest_activity"
                /\ as_outcome = NoOutcome)

\* A step of the run never goes back to an earlier stage and never takes
\* back a call.
C13_Forward ==
    as_pc' # "idle" =>
        /\ StageRank(as_pc') >= StageRank(as_pc)
        /\ IsPrefix(as_calls, as_calls')

SnippetAndCompletions ==
    /\ as_pc = "done"
    /\ \E k \in 1..Len(as_results) : as_results[k] \notin EmptyAnswers
    /\ Len(as_responses) = Len(LLMCalls)
    /\ \A i \in 1..Len(as_responses) :
            as_responses[i].k = "json" /\ as_responses[i].body = "completion"

\* The prompt of a call carries the city, the temperature and the conditions.
PromptNamesWeather(call) ==
    /\ call.prompt.city = as_args.city
    /\ call.prompt.temp = as_args.weather.temp
    /\ call.prompt.conditions = as_args.weather.conditions

\* v is text with the white space around it taken off.
IsStripped(v, text) ==
    \E i \in 1..(Len(text) + 1), j \in 0..Len(text) :
        /\ v = SubSeq(text, i, j)
        /\ \A k \in (1..(i - 1)) \cup ((j + 1)..Len(text)) :
                SubSeq(text, k, k) \in {" ", "\n", "\t"}
        /\ v # "" => /\ SubSeq(v, 1, 1) \notin {" ", "\n", "\t"}
                     /\ SubSeq(v, Len(v), Len(v)) \notin {" ", "\n", "\t"}

CallsOfKind(kinds) == SelectSeq(pq_calls, LAMBDA c : c.kind \in kinds)

\* No suggester run belongs to the running query: none was started, none
\* is under way, and no search or suggester LLM call was made.
NoSuggesterActivity ==
    /\ CallsOfKind({"suggester", "search", "llm"}) = <<>>
    /\ as_pc = "idle"
    /\ as_calls = <<>>

\* The current-weather tool handed back the sentinel reading.
UnknownReading ==
    /\ pq_intent = "current"
    /\ pq_result.k = "return"
    /\ pq_result.v.temp = "unknown"

\* C15: a current-weather reading whose temperature is 'unknown' is never
\* passed to the activity suggester: in such a run no suggester, search or
\* suggester LLM call is made, and the response returned is the apology
\* naming the city.
C15_UnknownReadingShortCircuits ==
    UnknownReading =>
        /\ NoSuggesterActivity
        /\ pq_pc = "done"
        /\ pq_outcome =
             Return("I'm sorry, I couldn't get the current weather for " \o pq_city \o ".")

C15_Witness ==
    /\ UnknownReading
    /\ pq_query = "What's the weather in Paris?"
    /\ pq_outcome = Return("I'm sorry, I couldn't get the current weather for Paris.")
    /\ CallsOfKind({"provider"}) # <<>>

\* Location resolution came back with no city.
NullLocation == pq_resolved.k = "return" /\ pq_resolved.v = None

\* C16: when location resolution returns null, process_query returns the
\* fixed clarification string, and once the resolution has failed it makes
\* no weather-provider call, no forecast call, no search call and no
\* activity-suggestion LLM call, whatever the intent.
C16_NullLocationStops ==
    NullLocation =>
        /\ pq_pc = "done"
        /\ pq_outcome = Return("I couldn't understand which city you're asking about. Please specify a city name clearly, like 'weather in San Francisco' or 'Tokyo weather'.")
        /\ Len(pq_calls) = 1 /\ pq_calls[1].kind = "extract_city"
        /\ CallsOfKind({"execute", "provider"}) = <<>>
        /\ NoSuggesterActivity

C16_Witness ==
    /\ NullLocation
    /\ pq_intent = "forecast"
    /\ pq_query = "Paris forecast for this weekend"
    /\ pq_outcome.k = "return"
    /\ pq_calls = <<AgentCall("extract_city", "_extract_city",
                              [query |-> "Paris forecast for this weekend"])>>

\* C17: when location resolution fails, the interaction is still appended
\* to the interaction log, as a record holding the query and the
\* clarification response.
C17_NullLocationLogged ==
    (NullLocation /\ pq_pc = "done") =>
        /\ db # <<>>
        /\ db[Len(db)] = [query |-> pq_query, response |-> pq_outcome.v]

\* The apology of the except clause, by operation.
DispatchApology ==
    IF pq_intent = "current"
    THEN "I'm sorry, I encountered an error getting weather for " \o pq_city \o "."
    ELSE "I'm sorry, I encountered an error getting the forecast for " \o pq_city \o "."

\* C18: an exception raised during a tool invocation in process_query (a
\* missing parameter, an unbound tool, an exception inside the weather or
\* forecast callable) is caught and turned into the fixed apology naming
\* the city and the operation; it does not leave process_query, and the
\* query goes on to logging.
C18_ToolExceptionsCaught ==
    /\ pq_result.k = "raise" =>
            /\ pq_pc = "done"
            /\ pq_outcome = Return(DispatchApology)
            /\ db # <<>>
            /\ db[Len(db)] = [query |-> pq_query, response |-> DispatchApology]
    /\ pq_outcome.k = "raise" => pq_resolved.k = "raise"

C18_Witness ==
    /\ pq_intent = "forecast"
    /\ GetTool(tr_tools, "get_weather_forecast").function = None
    /\ pq_result = UnboundError
    /\ pq_outcome = Return("I'm sorry, I encountered an error getting the forecast for Paris.")
    /\ db = <<[query |-> "forecast for Paris tomorrow",
               response |-> "I'm sorry, I encountered an error getting the forecast for Paris."]>>

\* The day count the documented rule gives for a forecast query.
DocumentedDays(query, today) ==
    IF Contains(StrLower(query), "weekend") THEN DaysToSaturday(today) + WeekendExtraDays
    ELSE IF Contains(StrLower(query), "next week") THEN WeekDays
    ELSE IF Contains(StrLower(query), "tomorrow") THEN TomorrowDays
    ELSE DefaultDays

\* C19: for a forecast query the number of days requested from the forecast
\* tool is a function of the time phrase: a weekend phrase requests
\* days_to_saturday + 2, a query containing 'next week' requests 7,
\* 'tomorrow' requests 1, any other or absent phrase requests 5.
C19_DaysByTimePhrase ==
    \A i \in 1..Len(pq_calls) :
        (pq_calls[i].kind = "execute" /\ pq_calls[i].name = "get_weather_forecast") =>
            pq_calls[i].params.days =
                DocumentedDays(pq_query,
                               IF pq_plan.today = NoToday
                               THEN [ordinal |-> FirstOfNovember + 1, hour |-> 0]
                               ELSE pq_plan.today)

\* The forecast call of a weekend query: the clock it read and the days it asked for.
WeekendCall ==
    /\ pq_plan.today # NoToday
    /\ Len(pq_calls) >= 2
    /\ pq_calls[2].name = "get_weather_forecast"

\* C20: days_to_saturday is (5 - weekday) mod 7 with Monday = 0, except on
\* a Saturday at hour >= 18, where it is 7: 3 on a Wednesday, 7 on Saturday
\* 19:00, 0 on a Saturday before 18:00; it lies in 0..7, the requested day
\* count lies in 2..9, and the Sunday looked for is the day after the
\* Saturday looked for.
C20_WeekendDays ==
    WeekendCall =>
        LET today == pq_plan.today
            weekday == Weekday(today.ordinal)
            requested == pq_calls[2].params.days
            days_to_saturday == requested - 2
        IN /\ requested = pq_plan.forecast_days
           /\ IF weekday = 5 /\ today.hour >= 18
              THEN days_to_saturday = 7
              ELSE days_to_saturday = (5 - weekday) % 7
           /\ weekday = 2 => days_to_saturday = 3
           /\ (weekday = 5 /\ today.hour = 19) => days_to_saturday = 7
           /\ (weekday = 5 /\ today.hour < 18) => days_to_saturday = 0
           /\ days_to_saturday \in 0..7
           /\ requested \in 2..9
           /\ NextSaturday(today) = today.ordinal + days_to_saturday
           /\ Weekday(NextSaturday(today)) = 5
           /\ NextSunday(today) = NextSaturday(today) + 1
           /\ Weekday(NextSunday(today)) = 6

C20_Witness ==
    /\ WeekendCall
    /\ Weekday(pq_plan.today.ordinal) = 5
    /\ pq_plan.today.hour = 19
    /\ pq_calls[2].params = [city |-> "Paris", days |-> 9]
    /\ DateText(NextSaturday(pq_plan.today)) = "2026-11-14"
    /\ DateText(NextSunday(pq_plan.today)) = "2026-11-15"

\* A weekend forecast was composed: the forecast list, the two dates looked
\* for and the text made of them.
WeekendComposed ==
    /\ pq_pc = "suggesting"
    /\ pq_intent = "forecast"
    /\ Contains(pq_plan.time_phrase, "weekend")
SaturdayDate == DateText(NextSaturday(pq_plan.today))
SundayDate == DateText(NextSunday(pq_plan.today))
HasDate(date) == \E i \in 1..Len(pq_result.v) : pq_result.v[i].date = date
IndexOfDate(date) == CHOOSE i \in 1..Len(pq_result.v) : pq_result.v[i].date = date

\* The weekend text listing the given days under the given labels.
WeekendText(days, labels) ==
    "Weather forecast for " \o pq_city \o " this weekend:\n\n"
        \o ForecastLines([i \in 1..Len(days) |-> [forecast |-> days[i], label |-> labels[i]]])

\* The first two days as Saturday and Sunday, or the only day as Weekend.
FirstDaysText ==
    LET forecasts == pq_result.v
    IN IF Len(forecasts) >= 2
       THEN WeekendText(<<forecasts[1], forecasts[2]>>, <<"Saturday", "Sunday">>)
       ELSE WeekendText(<<forecasts[1]>>, <<"Weekend">>)

C22_WeekendByDate ==
    (WeekendComposed /\ HasDate(SaturdayDate) /\ HasDate(SundayDate)) =>
        LET forecasts == pq_result.v
            sat == IndexOfDate(SaturdayDate)
            sun == IndexOfDate(SundayDate)
        IN pq_response =
            IF sat < sun
            THEN WeekendText(<<forecasts[sat], forecasts[sun]>>, <<"Saturday", "Sunday">>)
            ELSE WeekendText(<<forecasts[sun], forecasts[sat]>>, <<"Sunday", "Saturday">>)

C22_Witness ==
    /\ WeekendComposed
    /\ Len(pq_result.v) = 5
    /\ IndexOfDate(SaturdayDate) = 4
    /\ IndexOfDate(SundayDate) = 5
    /\ pq_response = "Weather forecast for Paris this weekend:\n\n"
            \o "* 2026-11-07 (Saturday): 9^C to 18^C, light rain\n"
            \o "* 2026-11-08 (Sunday): 10^C to 15^C, light rain\n"

\* The suggester has returned no suggestion to the query that called it.
NoSuggestion ==
    /\ pq_pc = "suggesting"
    /\ as_pc = "done"
    /\ as_outcome = Return(None)

\* The step in which process_query takes a missing suggestion: the response
\* returned and saved is the composed text, and no search is counted.
C23_Step ==
    (NoSuggestion /\ pq_pc' # pq_pc) =>
        /\ pq_pc' = "done"
        /\ pq_outcome' = Return(pq_response)
        /\ pq_response =
                IF pq_intent = "current" THEN CurrentResponse(pq_city, pq_result.v)
                ELSE ForecastResponse(pq_city, pq_plan.time_phrase, pq_result.v,
                                      pq_plan.today)
        /\ db' = Append(db, [query |-> pq_query, response |-> pq_response])
        /\ api_calls' = api_calls

\* C23: when the suggester returns no suggestion, process_query treats it
\* as a non-error: the response is exactly the composed weather or forecast
\* text, with no activity section and no apology, and the query goes on to
\* logging.
C23_NoSuggestionIsNoError == [][C23_Step]_vars

C23_Witness ==
    /\ pq_pc = "done"
    /\ pq_intent = "current"
    /\ Len(CallsOfKind({"search"})) = 3
    /\ Len(CallsOfKind({"llm"})) = 1
    /\ CallsOfKind({"llm"})[1].operation = "search_terms"
    /\ pq_outcome = Return("Current weather in Paris: 20^C, clear")
    /\ db = <<[query |-> "What's the weather in Paris?",
               response |-> "Current weather in Paris: 20^C, clear"]>>

\* C24: a record is appended to the ledger on every call of
\* LLMClient.generate, whatever its outcome, so the ledger is as long as
\* the number of generate calls made.
C24_LedgerCountsGenerateCalls == Len(ct.calls) = Len(gen_log)

\* The sum of a field over the records of a sequence, and over the entries
\* of operation_stats.
RECURSIVE SumField(_, _)
SumField(records, field) ==
    IF records = <<>> THEN 0 ELSE records[1][field] + SumField(Tail(records), field)
RECURSIVE SumStats(_, _, _)
SumStats(stats, operations, field) ==
    IF operations = {} THEN 0
    ELSE LET op == CHOOSE op \in operations : TRUE
         IN stats[op][field] + SumStats(stats, operations \ {op}, field)
Tagged(operation) == SelectSeq(ct.calls, LAMBDA c : c.operation = operation)

\* C25: after any sequence of log_call operations the aggregates agree with
\* the call log: total_calls is the number of records and the sum of the
\* per-operation counts; the session token totals are the sums over the
\* records and the sums of the per-operation totals; each operation's count
\* and token totals are the sums over the records with its tag;
\* last_call_info is the last record.
C25_AggregatesAgree ==
    LET stats == ct.operation_stats
        operations == DOMAIN stats
        total_calls == Len(ct.calls)
    IN /\ total_calls = SumStats(stats, operations, "count")
       /\ ct.total_tokens.input = SumField(ct.calls, "input_tokens")
       /\ ct.total_tokens.output = SumField(ct.calls, "output_tokens")
       /\ ct.total_tokens.input = SumStats(stats, operations, "input_tokens")
       /\ ct.total_tokens.output = SumStats(stats, operations, "output_tokens")
       /\ operations = { ct.calls[i].operation : i \in 1..Len(ct.calls) }
       /\ \A op \in operations :
            /\ stats[op].count = Len(Tagged(op))
            /\ stats[op].input_tokens = SumField(Tagged(op), "input_tokens")
            /\ stats[op].output_tokens = SumField(Tagged(op), "output_tokens")
       /\ ct.calls # <<>> => ct.last_call_info = ct.calls[Len(ct.calls)]
       /\ ct.calls = <<>> => ct.last_call_info = NoCallInfo

C25_Witness ==
    /\ Len(ct.calls) = 3
    /\ DOMAIN ct.operation_stats = {"verify_city", "search_terms"}
    /\ ct.operation_stats["verify_city"].count = 2
    /\ ct.operation_stats["verify_city"].input_tokens = 10
    /\ ct.total_tokens = [input |-> 17, output |-> 5]
    /\ ct.last_call_info.operation = "verify_city"

\* The generate call made in this step, when the step is one.
LastGenerate == gen_log'[Len(gen_log')]
NetworkFailure(call) == call.handler \in {"timeout", "exception"}

\* A generate call whose request failed returns an error value with the tag
\* of the failure and without 'choices', and leaves the tracker as it was.
C26_Step ==
    (gen_log' # gen_log /\ NetworkFailure(LastGenerate)) =>
        /\ gen_log' = Append(gen_log, LastGenerate)
        /\ LastGenerate.outcome.k = "return"
        /\ LastGenerate.outcome.v.k = "error"
        /\ LastGenerate.outcome.v.tag =
                (IF LastGenerate.handler = "timeout" THEN "timeout" ELSE "request_failed")
        /\ ~HasChoices(LastGenerate.outcome.v)
        /\ ct' = ct

\* C26: LLMClient.generate never raises on a network failure: a timeout
\* returns an error value tagged 'timeout', any other request failure one
\* tagged 'request_failed'; these values carry no 'choices', and the ledger
\* totals and call log are unchanged by the failed call.
C26_NetworkFailureReturnsError == [][C26_Step]_vars

C26_Witness ==
    /\ Len(gen_log) = 3
    /\ gen_log[1].handler = "json" /\ HasChoices(gen_log[1].outcome.v)
    /\ gen_log[2].handler = "timeout" /\ gen_log[2].outcome.v.tag = "timeout"
    /\ gen_log[3].handler = "exception" /\ gen_log[3].outcome.v.tag = "request_failed"
    /\ Len(ct.calls) = 1
    /\ ct.total_tokens = [input |-> 7, output |-> 5]

\* The search made asked for nothing: its query is empty or blank.
BlankQuery == Strip(bs.query) = ""

\* The number of characters of s that are not blank.
RECURSIVE NonBlank(_)
NonBlank(s) ==
    IF Len(s) = 0 THEN 0
    ELSE (IF IsWhitespace(SubSeq(s, 1, 1)) THEN 0 ELSE 1) + NonBlank(SubSeq(s, 2, Len(s)))

\* What holds of every search whatever the query: it does not raise, makes
\* at most one request, sleeps once exactly on a 429, and returns None on a
\* failed request, a status other than 200, no result and no result kept.
SearchContained ==
    bs.outcome.k # "none" =>
        /\ bs.outcome.k = "return"
        /\ bs.requests \in {0, 1}
        /\ bs.sleeps = (IF bs.reply.k = "status" /\ bs.reply.status = 429 THEN 1 ELSE 0)
        /\ (bs.reply.k = "exception" \/ (bs.reply.k = "status" /\ bs.reply.status # 200))
                => bs.outcome.v = None
        /\ (bs.reply.k = "status" /\ bs.reply.status = 200 /\ bs.reply.body = "json"
                /\ \A i \in 1..Len(bs.reply.results) :
                        \/ bs.reply.results[i] = None
                        \/ \E t \in 1..Len(AdminTerms) :
                                Contains(StrLower(bs.reply.results[i]), AdminTerms[t]))
                => bs.outcome.v = None

\* C27 as stated: besides the above, a query of fewer than 3 non-blank
\* characters returns None without any HTTP request.
C27_FewNonBlankNoRequest ==
    /\ SearchContained
    /\ (bs.outcome.k # "none" /\ NonBlank(bs.query) < MinQueryLength)
            => (bs.requests = 0 /\ bs.outcome.v = None)

\* C27: BraveSearch.search never raises and makes at most one request; a
\* failed request, a status other than 200, a 429 (after one sleep), no
\* result and no result kept each give None; a query that is empty, blank,
\* or shorter than 3 characters once stripped gives None without a request,
\* and every other query makes one.
C27_SearchNeverRaises ==
    /\ SearchContained
    /\ bs.outcome.k # "none" =>
            IF Len(Strip(bs.query)) < MinQueryLength
            THEN bs.requests = 0 /\ bs.outcome.v = None
            ELSE bs.requests = 1

C27_Witness ==
    /\ bs.query = "museum Paris"
    /\ bs.reply.k = "status" /\ bs.reply.status = 429
    /\ bs.requests = 1 /\ bs.sleeps = 1
    /\ bs.outcome = Return(None)

\* The query 'a b' holds two non-blank characters and is requested.
C27_WitnessShortQuery ==
    /\ bs.query = "a b" /\ bs.requests = 1
    /\ bs.outcome = Return("Louvre museum")

\* The key of the temperature in the payload of the provider called.
TempKey == IF wp.provider = "OpenWeatherProvider" THEN "main.temp" ELSE "current.temp_c"

\* The weather API failed the call made: the request raised, the status is
\* not 200, the payload is not JSON or lacks a key the provider reads.
UpstreamFailure ==
    \/ wp.reply.k = "exception"
    \/ wp.reply.status # 200
    \/ wp.reply.body = "malformed"
    \/ IF wp.provider = "OpenWeatherProvider"
       THEN ~({"main.temp", "main.humidity", "weather.0.description"}
                    \subseteq DOMAIN wp.reply.payload)
       ELSE ~({"current.temp_c", "current.humidity", "current.condition.text"}
                    \subseteq DOMAIN wp.reply.payload)

\* C28: get_current_weather of either provider never raises: on an upstream
\* failure it returns the reading with temp 'unknown', humidity 'unknown'
\* and conditions 'Could not retrieve weather data'; on success temp is the
\* number the provider gave.
C28_ProvidersNeverRaise ==
    wp.outcome.k # "none" =>
        /\ wp.outcome.k = "return"
        /\ IF UpstreamFailure
           THEN /\ wp.outcome.v.temp.s = "unknown" /\ wp.outcome.v.temp.t = "str"
                /\ wp.outcome.v.humidity.s = "unknown" /\ wp.outcome.v.humidity.t = "str"
                /\ wp.outcome.v.conditions.s = "Could not retrieve weather data"
           ELSE /\ wp.outcome.v.temp.t = "num"
                /\ wp.outcome.v.temp = wp.reply.payload[TempKey]

C28_Witness ==
    /\ wp.provider = "OpenWeatherProvider"
    /\ wp.reply.status = 200 /\ wp.reply.body = "json"
    /\ DOMAIN wp.reply.payload = {"main.temp", "main.humidity"}
    /\ wp.outcome = Return(CreateErrorResponse)

C28_WitnessSuccess ==
    /\ wp.provider = "WeatherAPIProvider"
    /\ wp.outcome.k = "return" /\ wp.outcome.v.temp.t = "num" /\ wp.outcome.v.temp.n = 31
    /\ wp.outcome.v.conditions.s = "Sunny"

\* The text of s before its first newline; s when it has none.
FirstLineOf(s) ==
    IF HasChar(s, "\n")
    THEN SubSeq(s, 1, (CHOOSE i \in 1..Len(s) :
                            /\ SubSeq(s, i, i) = "\n"
                            /\ \A j \in 1..(i - 1) : SubSeq(s, j, j) # "\n") - 1)
    ELSE s

\* The first line of a completion, without quotes and surrounding blanks.
FirstLineTerms(content) == Strip(ReplaceChar(FirstLineOf(Strip(content)), "\"", ""))

\* C29: the terms placed in the first search query are the completion of
\* the search-terms call with quotes and newlines stripped, only the first
\* line of a completion of several lines being used.
C29_FirstLineOnly ==
    (Len(as_responses) >= 1 /\ SearchCalls # <<>> /\ HasChoices(as_responses[1])) =>
        /\ as_terms = FirstLineTerms(as_responses[1].content)
        /\ ~HasChar(as_terms, "\"") /\ ~HasChar(as_terms, "\n")
        /\ SearchCalls[1].query = as_terms \o " attractions " \o as_args.city

\* process_query returns in this step.
Returning == pq_pc # "done" /\ pq_pc' = "done" /\ pq_outcome'.k = "return"

\* What a step does to the saved interactions: they are kept as they are,
\* one is appended exactly in the step in which a query with a resolved
\* location returns, and it holds the query and the response returned.
C30_Step ==
    /\ Len(db') >= Len(db) /\ SubSeq(db', 1, Len(db)) = db
    /\ (Returning /\ pq_city' # None) =>
            db' = Append(db, [query |-> pq_query, response |-> pq_outcome'.v])
    /\ db' # db => (Returning /\ pq_city' # None)

C31_ResolutionDeterministic ==
    ec_pc = "done" =>
        \A earlier \in BOOLEAN : ec_outcome = ExtractCityOutcome(earlier, ec_response)

\* A word the rules look for occurs in the conditions given, in any case.
Says(word) == Contains(StrLower(wc.conditions), word)

\* C32: the framing of the rule-based suggester is a decision list in fixed
\* order: rain or storm gives indoor; else snow gives indoor; else a
\* temperature above 30 gives indoor; else one below 5 gives indoor; else
\* 'clear' with a temperature from 15 to 25 gives outdoor; else general.
\* The condition rules come before the temperature rules, and 30 and 5 are
\* general, 15 and 25 outdoor when clear.
C32_FramingDecisionList ==
    wc.query # "" =>
        /\ wc.weather_context =
                (IF Says("rain") \/ Says("storm") THEN "indoor"
                 ELSE IF Says("snow") THEN "indoor"
                 ELSE IF wc.temp > 30 THEN "indoor"
                 ELSE IF wc.temp < 5 THEN "indoor"
                 ELSE IF Says("clear") /\ wc.temp >= 15 /\ wc.temp <= 25 THEN "outdoor"
                 ELSE "general")
        /\ (wc.temp \in {30, 5} /\ ~Says("rain") /\ ~Says("storm") /\ ~Says("snow")
                /\ ~Says("clear"))
                => wc.weather_context = "general"
        /\ (wc.temp \in {15, 25} /\ wc.conditions = "clear sky") => wc.weather_context = "outdoor"
        /\ (wc.temp = 20 /\ wc.conditions = "light rain") => wc.weather_context = "indoor"

C32_Witness ==
    /\ wc.temp = 30 /\ wc.conditions = "mist"
    /\ wc.weather_context = "general"
    /\ wc.query = "most famous landmark monument Seattle -tripadvisor -booking"

C32_WitnessOutdoor ==
    /\ wc.temp = 25 /\ wc.conditions = "Clear" /\ wc.weather_context = "outdoor"

\* The forecast tool handed back the empty list.
EmptyForecast ==
    /\ pq_intent = "forecast"
    /\ pq_result.k = "return"
    /\ pq_result.v = <<>>

\* C33: for a forecast query whose tool returns the empty list,
\* process_query returns the forecast apology naming the city, makes no
\* suggester, search or suggester LLM call, and saves the interaction.
C33_EmptyForecastApology ==
    EmptyForecast =>
        /\ NoSuggesterActivity
        /\ pq_pc = "done"
        /\ pq_outcome =
             Return("I'm sorry, I couldn't get the weather forecast for " \o pq_city \o ".")
        /\ Len(db) >= 1
        /\ db[Len(db)] = [query |-> pq_query, response |-> pq_outcome.v]

C33_Witness ==
    /\ EmptyForecast
    /\ pq_city = "Paris"
    /\ pq_outcome = Return("I'm sorry, I couldn't get the weather forecast for Paris.")
    /\ CallsOfKind({"provider"}) # <<>>
    /\ api_calls.forecast = 1

\* The calls of the running query so far: those process_query made and
\* those of the suggester run under way.
Made(kinds) ==
    Len(CallsOfKind(kinds)) + Len(SelectSeq(as_calls, LAMBDA c : c.kind \in kinds))
MadeLLM(operation) ==
    Len(SelectSeq(pq_calls \o as_calls,
                  LAMBDA c : c.kind = "llm" /\ c.operation = operation))

\* One query makes at most one _extract_city call (which issues the one
\* verify_city call), one tool call reaching at most one provider, three
\* searches and one LLM call of each suggester operation.
BoundedCalls ==
    /\ Made({"extract_city"}) <= 1
    /\ Made({"execute"}) <= 1
    /\ Made({"provider"}) <= 1
    /\ \A i \in 1..Len(pq_calls) :
            pq_calls[i].kind \in {"execute", "provider"} => pq_calls[i].name = ToolName(pq_intent)
    /\ Made({"search"}) <= 3
    /\ MadeLLM("search_terms") <= 1
    /\ MadeLLM("suggest_activity") <= 1
    /\ Made({"llm"}) <= 2
    /\ Made({"extract_city"}) + Made({"llm"}) <= 3

\* C34: every process_query call terminates when each collaborator call
\* returns, and makes at most one verify_city LLM call, one weather or
\* forecast tool call (never both), three search calls and two suggester
\* LLM calls, so three LLM calls at most; none is made a second time after
\* it failed.
C34_TerminatesBounded ==
    /\ []BoundedCalls
    /\ \A n \in 1..MaxQueries : (pq_count = n /\ pq_pc = "resolving") ~> (pq_count = n /\ pq_pc = "done")

C34_Witness ==
    /\ pq_pc = "done"
    /\ Made({"extract_city"}) = 1 /\ Made({"execute"}) = 1 /\ Made({"provider"}) = 1
    /\ Made({"search"}) = 3
    /\ MadeLLM("search_terms") = 1 /\ MadeLLM("suggest_activity") = 1
    /\ pq_outcome.k = "return"

\* The total is the sum of the three counters.
TotalIsSum ==
    api_calls.total = api_calls.weather + api_calls.forecast + api_calls.search

\* No counter decreases in a step, and the steps of a query that is aborted
\* for a null location (its start, its abort, its return to the caller)
\* change none.
C35_Step ==
    /\ \A k \in {"weather", "forecast", "search", "total"} : api_calls'[k] >= api_calls[k]
    /\ (pq_pc' = "resolving" \/ (pq_resolved'.k = "return" /\ pq_resolved'.v = None)
            \/ (pq_resolved.k = "return" /\ pq_resolved.v = None))
            => api_calls' = api_calls

C35_WitnessNullLocation ==
    /\ pq_pc = "done" /\ NullLocation
    /\ api_calls = [weather |-> 0, forecast |-> 0, search |-> 0, total |-> 0]

\* The day of a date text, as the ordinal DateText prints so.
OrdinalOf(date) ==
    CHOOSE o \in FirstOfNovember..(FirstOfNovember + DaysInNovember) : DateText(o) = date

\* The dates of the forecast are distinct and ascending.
AscendingDates ==
    \A i \in 1..(Len(pq_result.v) - 1) :
        OrdinalOf(pq_result.v[i].date) < OrdinalOf(pq_result.v[i + 1].date)

\* C36: for a weekend forecast with a non-empty list of distinct ascending
\* dates, the weekend section lists one or two entries of the forecast; two
\* entries are listed as 'Saturday' then 'Sunday', the Saturday being the
\* earlier date.
C36_WeekendOneOrTwo ==
    (WeekendComposed /\ AscendingDates) =>
        LET forecasts == pq_result.v
            n == Len(forecasts)
        IN \/ \E i \in 1..n, label \in {"Saturday", "Sunday", "Weekend"} :
                    pq_response = WeekendText(<<forecasts[i]>>, <<label>>)
           \/ \E i \in 1..n, j \in 1..n :
                    /\ OrdinalOf(forecasts[i].date) < OrdinalOf(forecasts[j].date)
                    /\ pq_response =
                            WeekendText(<<forecasts[i], forecasts[j]>>, <<"Saturday", "Sunday">>)

C36_Witness ==
    /\ WeekendComposed /\ AscendingDates
    /\ Len(pq_result.v) = 3
    /\ ~HasDate(SaturdayDate) /\ HasDate(SundayDate) /\ IndexOfDate(SundayDate) = 2
    /\ pq_response = WeekendText(<<pq_result.v[1], pq_result.v[2]>>, <<"Saturday", "Sunday">>)

\* The suggester has raised to the query that called it, the weather or
\* forecast text being composed.
SuggesterRaised ==
    /\ pq_pc = "suggesting"
    /\ as_pc = "done"
    /\ as_outcome.k = "raise"

\* The step in which process_query takes the exception of the suggester.
C37_Step ==
    (SuggesterRaised /\ pq_pc' # pq_pc) =>
        /\ pq_pc' = "done"
        /\ pq_response # None /\ Contains(pq_response, "^C")
        /\ pq_outcome' =
                Return(IF pq_intent = "current"
                       THEN "I'm sorry, I encountered an error getting weather for "
                                \o pq_city \o "."
                       ELSE "I'm sorry, I encountered an error getting the forecast for "
                                \o pq_city \o ".")
        /\ ~Contains(pq_outcome'.v, "^C") /\ ~Contains(pq_outcome'.v, "\n")
        /\ db' = Append(db, [query |-> pq_query, response |-> pq_outcome'.v])
        /\ api_calls' = api_calls
        /\ api_calls[IF pq_intent = "current" THEN "weather" ELSE "forecast"] >= 1
        /\ api_calls.total >= 1

\* C37: when the suggester raises after the weather or forecast data was
\* fetched, process_query discards the composed text: the response returned
\* and saved is the error apology naming the city, without temperature or
\* forecast lines, and the weather or forecast count made before is kept.
C37_SuggesterRaiseDiscardsText == [][C37_Step]_vars

C37_Witness ==
    /\ pq_pc = "done"
    /\ pq_intent = "forecast"
    /\ pq_result.k = "return" /\ Len(pq_result.v) = 5
    /\ CallsOfKind({"suggester"}) # <<>>
    /\ pq_outcome = Return("I'm sorry, I encountered an error getting the forecast for Paris.")
    /\ db = <<[query |-> pq_query, response |-> pq_outcome.v]>>
    /\ api_calls = [weather |-> 0, forecast |-> 1, search |-> 0, total |-> 1]

\* A history query whose location is resolved is running or over.
HistoryQuery == pq_intent = "history" /\ pq_city # None

\* What holds of a history query with a resolved location: the only call
\* made is the one of _extract_city, which issues the verify_city call; once
\* over, it has returned the fixed message naming the city and saved it.
HistoryAnswered ==
    HistoryQuery =>
        /\ pq_calls = <<AgentCall("extract_city", "_extract_city", [query |-> pq_query])>>
        /\ NoSuggesterActivity
        /\ pq_pc = "done"
        /\ pq_outcome = Return("I'm sorry, I don't have access to historical weather data for "
                                \o pq_city \o " yet.")
        /\ Len(db) >= 1
        /\ db[Len(db)] = [query |-> pq_query, response |-> pq_outcome.v]

\* C38: for a history query with a resolved location process_query makes no
\* weather, forecast, search or suggester call and leaves every api_calls
\* counter as it was, yet it has made the verify_city call, returns the
\* fixed 'no historical data' message naming the city, and saves the
\* interaction.
C38_HistoryNoCalls ==
    /\ []HistoryAnswered
    /\ [][(pq_intent' = "history" \/ pq_intent = "history") => api_calls' = api_calls]_vars

C38_Witness ==
    /\ HistoryQuery
    /\ pq_query = "weather history for Paris"
    /\ pq_outcome =
            Return("I'm sorry, I don't have access to historical weather data for Paris yet.")
    /\ db = <<[query |-> "weather history for Paris", response |-> pq_outcome.v]>>
    /\ api_calls.total = 0

\* The search_terms call of the run has returned a value without 'choices'.
TermsCallFailed == Len(as_responses) >= 1 /\ ~HasChoices(as_responses[1])

\* C39: when the search_terms call returns an error value without 'choices'
\* the suggester does not abort: no exception leaves it, the generated terms
\* are empty and the first search query is ' attractions {city}'; after a
\* search that gave a snippet the suggest_activity call is made, and when
\* that call returns no 'choices' either the suggester returns None.
C39_FailedTermsDoNotAbort ==
    TermsCallFailed =>
        /\ as_outcome.k # "raise"
        /\ as_terms = ""
        /\ Len(SearchCalls) >= 1
        /\ SearchCalls[1] = SearchCall(" attractions " \o as_args.city)
        /\ \A i \in 1..Len(as_results) :
                ~IsEmptyResult(as_results[i]) =>
                    /\ i = Len(as_results)
                    /\ Len(LLMCalls) = 2
                    /\ LLMCalls[2].operation = "suggest_activity"
        /\ (Len(as_responses) = 2 /\ ~HasChoices(as_responses[2])) =>
                (as_pc = "done" /\ as_outcome = Return(None))
====
